---- MODULE Spec2Model ----
(***************************************************************************)
(* McvDataset (src/gluon/datasets/mcv_asr_dataset.py): the constructor of  *)
(* the Mozilla Common Voice dataset, its per-language text normalization   *)
(* and its label encoding.                                                 *)
(*                                                                         *)
(* A text is a sequence of characters.  An ASCII character is written as   *)
(* itself.  A non-ASCII character of the source is written as a token:     *)
(*   "L<n>.<k>"   the k-th alternative of the pattern at source line n,    *)
(*   "<lang>#<i>" the entry at 0-based position i of <lang>'s vocabulary,  *)
(*   "U+XXXX"     a code point (the Cyrillic letters, which occur both in  *)
(*                the Russian vocabularies and in the Russian rules, and   *)
(*                the characters used to exercise lower(), combining()     *)
(*                and unidecode()).                                        *)
(* The ASCII grave accent is written "U+0060".  Tokens of different names   *)
(* are different characters.                                               *)
(*                                                                         *)
(* The model factories of src/gluon/gluoncv2/models (seresnet_cifar.py,    *)
(* pyramidnet_cifar.py, airnext.py, shufflenetv2b.py): the factory         *)
(* functions, get_<family> and the constructors, which build               *)
(* self.features block by block, and the forward pass on one image.        *)
(***************************************************************************)
EXTENDS Integers, Sequences, FiniteSets, TLC

(* The state of McvDataset.__init__. *)
VARIABLES lang, pc, vocabulary, vocabulary_dict, exists, total, rows, clip_file_name, sentence,
          text, data, failure, events

(* The state of a model factory of gluoncv2/models: the factory called, the
   arguments it hands to the constructor, and the constructor's position,
   its local variables in_channels, in_size, i and j, self.features,
   self.output and the shape of the output of the forward pass; the
   pretrained and model_name arguments of get_<family>, the calls made to
   fetch and load a parameter file, and the exception raised, if any. *)
VARIABLES model, npc, args, locals, features, output, y, pretrained, model_name, loaded, error

mcv_vars ==
    <<lang, pc, vocabulary, vocabulary_dict, exists, total, rows, clip_file_name, sentence, text,
      data, failure, events>>

(* The arguments of the call: no step of the call changes them. *)
call_vars == <<model, pretrained, model_name>>

net_vars ==
    <<model, npc, args, locals, features, output, y, pretrained, model_name, loaded, error>>

(* The state of a McvMetaInfo: its attributes, and the calls of update and
   update_from_dataset made on it so far. *)
VARIABLES metainfo, calls

meta_vars == <<metainfo, calls>>

vars == <<mcv_vars, net_vars, meta_vars>>

(* Longest sentence drawn, apart from the fixed examples. *)
MaxLen == 3

(* Most rows of a metadata table. *)
MaxRows == 2

Range(s) == {s[i] : i \in 1..Len(s)}

(* The language codes accepted at lines 42 and 223. *)
SupportedLangs == {"en", "fr", "de", "it", "es", "ca", "pl", "ru", "ru34"}

(* Codes passed by callers: the supported ones and two that are not. *)
Langs == SupportedLangs \cup {"zh", "EN"}

(* ---------------------------------------------------------------- *)
(* get_vocabulary_for_lang, lines 224-251                           *)
(* ---------------------------------------------------------------- *)
vocabulary_en ==
    << " ", "a", "b", "c", "d", "e", "f", "g", "h", "i", "j", "k", "l", "m", "n", "o", "p", "q",
       "r", "s", "t", "u", "v", "w", "x", "y", "z", "'" >>

vocabulary_fr ==
    << " ", "a", "b", "c", "d", "e", "f", "g", "h", "i", "j", "k", "l", "m", "n", "o", "p", "q",
       "r", "s", "t", "u", "v", "w", "x", "y", "z", "'", "fr#28", "fr#29", "fr#30", "fr#31",
       "fr#32", "fr#33", "fr#34", "fr#35", "fr#36", "fr#37", "fr#38", "fr#39", "fr#40", "fr#41" >>

vocabulary_de ==
    << " ", "a", "b", "c", "d", "e", "f", "g", "h", "i", "j", "k", "l", "m", "n", "o", "p", "q",
       "r", "s", "t", "u", "v", "w", "x", "y", "z", "de#27", "de#28", "de#29", "de#30" >>

vocabulary_it ==
    << " ", "a", "b", "c", "d", "e", "f", "g", "h", "i", "j", "k", "l", "m", "n", "o", "p", "q",
       "r", "s", "t", "u", "v", "w", "x", "y", "z", "'", "it#28", "it#29", "it#30", "it#31",
       "it#32", "it#33", "it#34", "it#35", "it#36", "it#37" >>

vocabulary_es ==
    << " ", "a", "b", "c", "d", "e", "f", "g", "h", "i", "j", "k", "l", "m", "n", "o", "p", "q",
       "r", "s", "t", "u", "v", "w", "x", "y", "z", "'", "es#28", "es#29", "es#30", "es#31",
       "es#32", "es#33", "es#34" >>

vocabulary_ca ==
    << " ", "a", "b", "c", "d", "e", "f", "g", "h", "i", "j", "k", "l", "m", "n", "o", "p", "q",
       "r", "s", "t", "u", "v", "w", "x", "y", "z", "'", "ca#28", "ca#29", "ca#30", "ca#31",
       "ca#32", "ca#33", "ca#34", "ca#35", "ca#36", "ca#37" >>

vocabulary_pl ==
    << " ", "a", "pl#2", "b", "c", "pl#5", "d", "e", "pl#8", "f", "g", "h", "i", "j", "k", "l",
       "pl#16", "m", "n", "pl#19", "o", "pl#21", "p", "r", "s", "pl#25", "t", "u", "w", "y", "z",
       "pl#31", "pl#32" >>

vocabulary_ru ==
    << " ", "U+0430", "U+0431", "U+0432", "U+0433", "U+0434", "U+0435", "U+0451", "U+0436",
       "U+0437", "U+0438", "U+0439", "U+043A", "U+043B", "U+043C", "U+043D", "U+043E", "U+043F",
       "U+0440", "U+0441", "U+0442", "U+0443", "U+0444", "U+0445", "U+0446", "U+0447", "U+0448",
       "U+0449", "U+044A", "U+044B", "U+044C", "U+044D", "U+044E", "U+044F" >>

vocabulary_ru34 ==
    << " ", "U+0430", "U+0431", "U+0432", "U+0433", "U+0434", "U+0435", "U+0436", "U+0437",
       "U+0438", "U+0439", "U+043A", "U+043B", "U+043C", "U+043D", "U+043E", "U+043F", "U+0440",
       "U+0441", "U+0442", "U+0443", "U+0444", "U+0445", "U+0446", "U+0447", "U+0448", "U+0449",
       "U+044A", "U+044B", "U+044C", "U+044D", "U+044E", "U+044F" >>

(* get_vocabulary_for_lang with the ru34 branch returning the list of ru. *)
get_vocabulary_for_lang_ru34_as_ru(lang_) ==
    IF lang_ \notin SupportedLangs
    THEN [raised |-> TRUE, value |-> <<>>]
    ELSE [raised |-> FALSE,
          value |-> CASE lang_ = "en" -> vocabulary_en
                      [] lang_ = "fr" -> vocabulary_fr
                      [] lang_ = "de" -> vocabulary_de
                      [] lang_ = "it" -> vocabulary_it
                      [] lang_ = "es" -> vocabulary_es
                      [] lang_ = "ca" -> vocabulary_ca
                      [] lang_ = "pl" -> vocabulary_pl
                      [] OTHER -> vocabulary_ru]

(* The value of "return None", line 253. *)
None == <<>>

(* Lines 223-253: the assert of line 223 raises for a code that is not
   supported; otherwise the list of the branch taken is returned. *)
get_vocabulary_for_lang(lang_) ==
    IF lang_ \notin SupportedLangs
    THEN [raised |-> TRUE, value |-> None]
    ELSE [raised |-> FALSE,
          value |-> CASE lang_ = "en" -> vocabulary_en
                      [] lang_ = "fr" -> vocabulary_fr
                      [] lang_ = "de" -> vocabulary_de
                      [] lang_ = "it" -> vocabulary_it
                      [] lang_ = "es" -> vocabulary_es
                      [] lang_ = "ca" -> vocabulary_ca
                      [] lang_ = "pl" -> vocabulary_pl
                      [] lang_ = "ru" -> vocabulary_ru
                      [] lang_ = "ru34" -> vocabulary_ru34
                      [] OTHER -> None]

(* make_vocabulary_dict with enumerate(vocabulary, 1): positions from 1. *)
make_vocabulary_dict_from_1(v) ==
    [c \in Range(v) |-> CHOOSE i \in 1..Len(v) : v[i] = c]

(* make_vocabulary_dict over reversed(vocabulary). *)
make_vocabulary_dict_reversed(v) ==
    [c \in Range(v) |-> CHOOSE i \in 0..(Len(v) - 1) : v[Len(v) - i] = c]

(* {c: i for i, c in enumerate(vocabulary)}: a later position of a repeated
   character replaces an earlier one.  Positions are 0-based. *)
make_vocabulary_dict(v) ==
    [c \in Range(v) |->
        CHOOSE i \in 0..(Len(v) - 1) :
            /\ v[i + 1] = c
            /\ \A j \in (i + 1)..(Len(v) - 1) : v[j + 1] # c]

(* ---------------------------------------------------------------- *)
(* Library functions used by the cascade                            *)
(* ---------------------------------------------------------------- *)

(* The characters matched by \s among those drawn. *)
Whitespace == {" ", "\t", "\n", "U+00A0"}

(* unicodedata.combining(c) != 0 among those drawn: U+0301, the combining
   acute accent. *)
Combining == {"U+0301"}

(* str.lower(), character by character. *)
lower_table ==
    [c \in {"A", "B", "C", "D", "E", "F", "G", "H", "I", "J", "K", "L", "M", "N", "O", "P",
            "Q", "R", "S", "T", "U", "V", "W", "X", "Y", "Z", "U+0410", "U+0401"} |->
        CASE c = "A" -> "a" [] c = "B" -> "b" [] c = "C" -> "c" [] c = "D" -> "d"
          [] c = "E" -> "e" [] c = "F" -> "f" [] c = "G" -> "g" [] c = "H" -> "h"
          [] c = "I" -> "i" [] c = "J" -> "j" [] c = "K" -> "k" [] c = "L" -> "l"
          [] c = "M" -> "m" [] c = "N" -> "n" [] c = "O" -> "o" [] c = "P" -> "p"
          [] c = "Q" -> "q" [] c = "R" -> "r" [] c = "S" -> "s" [] c = "T" -> "t"
          [] c = "U" -> "u" [] c = "V" -> "v" [] c = "W" -> "w" [] c = "X" -> "x"
          [] c = "Y" -> "y" [] c = "Z" -> "z"
          [] c = "U+0410" -> "U+0430" [] c = "U+0401" -> "U+0451"]

(* lower left out: the sentence is used as it is. *)
lower_omitted(s) == s

lower(s) ==
    [i \in 1..Len(s) |-> IF s[i] \in DOMAIN lower_table THEN lower_table[s[i]] ELSE s[i]]

(* unidecode.unidecode(c) for one character: ASCII is returned unchanged,
   U+00A0 (no-break space) gives " ", U+00E3 (a with tilde) gives "a",
   U+20AC (euro sign) gives "EUR".  The first accented letter of the
   vocabularies of it, es, ca and pl is a two-byte letter, of which
   unidecode gives the ASCII base letter (taken as "a"). *)
unidecode(c) ==
    CASE c = "U+00A0" -> <<" ">>
      [] c = "U+00E3" -> <<"a">>
      [] c = "U+20AC" -> <<"E", "U", "R">>
      [] c \in {"it#28", "es#28", "ca#28", "pl#2"} -> <<"a">>
      [] OTHER -> <<c>>

(* ---------------------------------------------------------------- *)
(* The substitution rules, lines 84-192, one record per statement    *)
(* ---------------------------------------------------------------- *)
rules_en ==
    << [kind |-> "chars", pat |-> {".", "-", "L85.3", "L85.4"}, repl |-> <<" ">>],
       [kind |-> "chars", pat |-> {"&"}, repl |-> <<" ", "a", "n", "d", " ">>],
       [kind |-> "chars", pat |-> {"L87.1"}, repl |-> <<"o">>],
       [kind |-> "chars", pat |-> {"L88.1", "L88.2"}, repl |-> <<"a">>],
       [kind |-> "chars", pat |-> {"L89.1"}, repl |-> <<"e">>],
       [kind |-> "chars", pat |-> {",", ";", ":", "!", "?", "\"", "L90.7", "L90.8", "L90.9", "L90.10", "(", ")"}, repl |-> <<>>],
       [kind |-> "plus", pat |-> Whitespace, repl |-> <<" ">>],
       [kind |-> "literal", pat |-> <<" ", "'">>, repl |-> <<" ">>],
       [kind |-> "literal", pat |-> <<"'", " ">>, repl |-> <<" ">>] >>

rules_fr ==
    << [kind |-> "combining", pat |-> {}, repl |-> <<>>],
       [kind |-> "chars", pat |-> {".", "-", "L96.3", "L96.4", "=", "L96.6", "*", "L96.8", "/", "L96.10", "_", "L96.12"}, repl |-> <<" ">>],
       [kind |-> "chars", pat |-> {",", ";", ":", "!", "?", "L97.6", "L97.7", "L97.8", "\"", "L97.10", "L97.11", "L97.12", "(", ")"}, repl |-> <<>>],
       [kind |-> "chars", pat |-> {"L98.1", "L98.2", "L98.3", "L98.4", "L98.5", "L98.6", "$", "L98.8", "L98.9", "L98.10"}, repl |-> <<>>],
       [kind |-> "chars", pat |-> {"L99.1", "L99.2"}, repl |-> <<"'">>],
       [kind |-> "chars", pat |-> {"&"}, repl |-> <<" ", "a", "n", "d", " ">>],
       [kind |-> "chars", pat |-> {"L101.1"}, repl |-> <<"o", "e">>],
       [kind |-> "chars", pat |-> {"L102.1"}, repl |-> <<"a", "e">>],
       [kind |-> "chars", pat |-> {"L103.1", "L103.2", "L103.3", "L103.4", "L103.5", "L103.6", "L103.7"}, repl |-> <<"a">>],
       [kind |-> "chars", pat |-> {"L104.1", "L104.2", "L104.3", "L104.4", "L104.5", "L104.6"}, repl |-> <<"o">>],
       [kind |-> "chars", pat |-> {"L105.1", "L105.2", "L105.3"}, repl |-> <<"e">>],
       [kind |-> "chars", pat |-> {"L106.1", "L106.2"}, repl |-> <<"i">>],
       [kind |-> "chars", pat |-> {"L107.1", "L107.2"}, repl |-> <<"u">>],
       [kind |-> "chars", pat |-> {"L108.1"}, repl |-> <<"y">>],
       [kind |-> "chars", pat |-> {"L109.1", "L109.2", "L109.3", "L109.4"}, repl |-> <<"s">>],
       [kind |-> "chars", pat |-> {"L110.1", "L110.2", "L110.3"}, repl |-> <<"z">>],
       [kind |-> "chars", pat |-> {"L111.1", "L111.2", "L111.3"}, repl |-> <<"n">>],
       [kind |-> "chars", pat |-> {"L112.1", "L112.2"}, repl |-> <<"l">>],
       [kind |-> "chars", pat |-> {"L113.1", "L113.2"}, repl |-> <<"c">>],
       [kind |-> "chars", pat |-> {"L114.1"}, repl |-> <<"y", "a">>],
       [kind |-> "chars", pat |-> {"L115.1"}, repl |-> <<"r">>],
       [kind |-> "chars", pat |-> {"L116.1"}, repl |-> <<"d">>],
       [kind |-> "chars", pat |-> {"L117.1"}, repl |-> <<"t">>],
       [kind |-> "chars", pat |-> {"L118.1"}, repl |-> <<"t", "h">>],
       [kind |-> "chars", pat |-> {"L119.1"}, repl |-> <<"g">>],
       [kind |-> "chars", pat |-> {"L120.1"}, repl |-> <<"s", "s">>],
       [kind |-> "chars", pat |-> {"L121.1"}, repl |-> <<"m", "u">>],
       [kind |-> "plus", pat |-> Whitespace, repl |-> <<" ">>] >>

rules_de ==
    << [kind |-> "chars", pat |-> {".", "-", "L124.3", "L124.4", "/", "_", "L124.7"}, repl |-> <<" ">>],
       [kind |-> "chars", pat |-> {",", ";", ":", "!", "?", "\"", "'", "L125.8", "L125.9", "L125.10", "L125.11", "L125.12", "L125.13", "L125.14", "\"", "L125.16", "L125.17", "L125.18", "L125.19", "L125.20", "(", ")"}, repl |-> <<>>],
       [kind |-> "chars", pat |-> {"L126.1", "L126.2", "L126.3", "L126.4"}, repl |-> <<>>],
       [kind |-> "chars", pat |-> {"&"}, repl |-> <<" ", "a", "n", "d", " ">>],
       [kind |-> "chars", pat |-> {"L128.1"}, repl |-> <<"a">>],
       [kind |-> "chars", pat |-> {"L129.1"}, repl |-> <<"a", "e">>],
       [kind |-> "chars", pat |-> {"L130.1", "L130.2", "L130.3", "L130.4", "L130.5", "L130.6", "L130.7"}, repl |-> <<"a">>],
       [kind |-> "chars", pat |-> {"L131.1", "L131.2", "L131.3", "L131.4", "L131.5", "L131.6", "L131.7"}, repl |-> <<"o">>],
       [kind |-> "chars", pat |-> {"L132.1", "L132.2", "L132.3", "L132.4", "L132.5"}, repl |-> <<"e">>],
       [kind |-> "chars", pat |-> {"L133.1", "L133.2"}, repl |-> <<"u">>],
       [kind |-> "chars", pat |-> {"L134.1", "L134.2", "L134.3"}, repl |-> <<"i">>],
       [kind |-> "chars", pat |-> {"L135.1", "L135.2", "L135.3", "L135.4"}, repl |-> <<"s">>],
       [kind |-> "chars", pat |-> {"L136.1", "L136.2"}, repl |-> <<"c">>],
       [kind |-> "chars", pat |-> {"L137.1"}, repl |-> <<"d">>],
       [kind |-> "chars", pat |-> {"L138.1"}, repl |-> <<"g">>],
       [kind |-> "chars", pat |-> {"L139.1"}, repl |-> <<"l">>],
       [kind |-> "chars", pat |-> {"L140.1"}, repl |-> <<"r">>],
       [kind |-> "chars", pat |-> {"L141.1"}, repl |-> <<"n">>],
       [kind |-> "chars", pat |-> {"L142.1"}, repl |-> <<"t">>],
       [kind |-> "chars", pat |-> {"L143.1", "L143.2"}, repl |-> <<"z">>],
       [kind |-> "plus", pat |-> Whitespace, repl |-> <<" ">>] >>

rules_it ==
    << [kind |-> "chars", pat |-> {".", "-", "L146.3", "L146.4", "/", "_", "L146.7"}, repl |-> <<" ">>],
       [kind |-> "chars", pat |-> {",", ";", ":", "!", "?", "\"", "L147.7", "L147.8", "\"", "L147.10", "L147.11", "L147.12", "L147.13", "L147.14", "<", ">", "(", ")"}, repl |-> <<>>],
       [kind |-> "chars", pat |-> {"$", "#", "L148.3"}, repl |-> <<>>],
       [kind |-> "chars", pat |-> {"L149.1", "U+0060"}, repl |-> <<"'">>],
       [kind |-> "chars", pat |-> {"L150.1"}, repl |-> <<"a">>],
       [kind |-> "unidecode", pat |-> {}, repl |-> <<>>],
       [kind |-> "plus", pat |-> Whitespace, repl |-> <<" ">>] >>

rules_es ==
    << [kind |-> "chars", pat |-> {".", "-", "L154.3", "L154.4", "/", "=", "_", "{", "L154.9"}, repl |-> <<" ">>],
       [kind |-> "chars", pat |-> {",", ";", ":", "!", "?", "\"", "L155.7", "L155.8", "\"", "L155.10", "L155.11", "L155.12", "L155.13", "L155.14", "<", ">", "(", ")", "L155.19", "L155.20"}, repl |-> <<>>],
       [kind |-> "chars", pat |-> {"L156.1", "L156.2"}, repl |-> <<>>],
       [kind |-> "unidecode", pat |-> {}, repl |-> <<>>],
       [kind |-> "plus", pat |-> Whitespace, repl |-> <<" ">>] >>

rules_ca ==
    << [kind |-> "chars", pat |-> {".", "-", "L160.3", "L160.4", "/", "=", "_", "L160.8", "@", "+", "L160.11"}, repl |-> <<" ">>],
       [kind |-> "chars", pat |-> {",", ";", ":", "!", "?", "\"", "L161.7", "L161.8", "\"", "L161.10", "L161.11", "L161.12", "L161.13", "L161.14", "<", ">", "(", ")", "L161.19", "L161.20"}, repl |-> <<>>],
       [kind |-> "chars", pat |-> {"L162.1", "L162.2"}, repl |-> <<>>],
       [kind |-> "unidecode", pat |-> {}, repl |-> <<>>],
       [kind |-> "plus", pat |-> Whitespace, repl |-> <<" ">>] >>

(* The branch of pl with the fallback of line 171 moved before the
   substitutions of lines 168-170 (the ASCII punctuation only). *)
rules_pl_fallback_first ==
    << [kind |-> "chars", pat |-> {".", "-", "/", "=", "_", "@", "+"}, repl |-> <<" ">>],
       [kind |-> "chars", pat |-> {",", ";", ":", "!", "?", "\"", "<", ">", "(", ")"}, repl |-> <<>>],
       [kind |-> "unidecode", pat |-> {}, repl |-> <<>>],
       [kind |-> "chars", pat |-> {"q"}, repl |-> <<"k">>],
       [kind |-> "chars", pat |-> {"x"}, repl |-> <<"k", "s">>],
       [kind |-> "chars", pat |-> {"v"}, repl |-> <<"w">>],
       [kind |-> "plus", pat |-> Whitespace, repl |-> <<" ">>] >>

rules_pl ==
    << [kind |-> "chars", pat |-> {".", "-", "L166.3", "L166.4", "/", "=", "_", "L166.8", "@", "+", "L166.11"}, repl |-> <<" ">>],
       [kind |-> "chars", pat |-> {",", ";", ":", "!", "?", "\"", "L167.7", "L167.8", "\"", "L167.10", "L167.11", "L167.12", "L167.13", "L167.14", "<", ">", "(", ")"}, repl |-> <<>>],
       [kind |-> "chars", pat |-> {"q"}, repl |-> <<"k">>],
       [kind |-> "chars", pat |-> {"x"}, repl |-> <<"k", "s">>],
       [kind |-> "chars", pat |-> {"v"}, repl |-> <<"w">>],
       [kind |-> "unidecode", pat |-> {}, repl |-> <<>>],
       [kind |-> "plus", pat |-> Whitespace, repl |-> <<" ">>] >>

(* The branch of ru with the table of lines 179-189 moved before the hyphen
   and punctuation statements of lines 174-178. *)
rules_ru_latin_first ==
    << [kind |-> "chars", pat |-> {"m"}, repl |-> <<"U+043C">>],
       [kind |-> "chars", pat |-> {"o"}, repl |-> <<"U+043E">>],
       [kind |-> "chars", pat |-> {"z"}, repl |-> <<"U+0437">>],
       [kind |-> "chars", pat |-> {"i"}, repl |-> <<"U+0438">>],
       [kind |-> "chars", pat |-> {"l"}, repl |-> <<"U+043B">>],
       [kind |-> "chars", pat |-> {"a"}, repl |-> <<"U+0430">>],
       [kind |-> "chars", pat |-> {"f"}, repl |-> <<"U+0444">>],
       [kind |-> "chars", pat |-> {"r"}, repl |-> <<"U+0440">>],
       [kind |-> "chars", pat |-> {"e"}, repl |-> <<"U+0435">>],
       [kind |-> "chars", pat |-> {"x"}, repl |-> <<"U+043A", "U+0441">>],
       [kind |-> "chars", pat |-> {"h"}, repl |-> <<"U+0445">>],
       [kind |-> "literal", pat |-> <<"U+043F", "U+043E", "-">>, repl |-> <<"U+043F", "U+043E">>],
       [kind |-> "literal", pat |-> <<"U+0432", "U+043E", "-">>, repl |-> <<"U+0432", "U+043E">>],
       [kind |-> "literal", pat |-> <<"-", "U+0442", "U+043E">>, repl |-> <<"U+0442", "U+043E">>],
       [kind |-> "chars", pat |-> {".", "L177.2", "-", "L177.4", "L177.5", "L177.6"}, repl |-> <<" ">>],
       [kind |-> "chars", pat |-> {",", ";", ":", "!", "?", "L178.6", "L178.7", "\"", "L178.9", "L178.10", "L178.11", "L178.12", "'"}, repl |-> <<>>],
       [kind |-> "plus", pat |-> Whitespace, repl |-> <<" ">>] >>

rules_ru ==
    << [kind |-> "literal", pat |-> <<"U+043F", "U+043E", "-">>, repl |-> <<"U+043F", "U+043E">>],
       [kind |-> "literal", pat |-> <<"U+0432", "U+043E", "-">>, repl |-> <<"U+0432", "U+043E">>],
       [kind |-> "literal", pat |-> <<"-", "U+0442", "U+043E">>, repl |-> <<"U+0442", "U+043E">>],
       [kind |-> "chars", pat |-> {".", "L177.2", "-", "L177.4", "L177.5", "L177.6"}, repl |-> <<" ">>],
       [kind |-> "chars", pat |-> {",", ";", ":", "!", "?", "L178.6", "L178.7", "\"", "L178.9", "L178.10", "L178.11", "L178.12", "'"}, repl |-> <<>>],
       [kind |-> "chars", pat |-> {"m"}, repl |-> <<"U+043C">>],
       [kind |-> "chars", pat |-> {"o"}, repl |-> <<"U+043E">>],
       [kind |-> "chars", pat |-> {"z"}, repl |-> <<"U+0437">>],
       [kind |-> "chars", pat |-> {"i"}, repl |-> <<"U+0438">>],
       [kind |-> "chars", pat |-> {"l"}, repl |-> <<"U+043B">>],
       [kind |-> "chars", pat |-> {"a"}, repl |-> <<"U+0430">>],
       [kind |-> "chars", pat |-> {"f"}, repl |-> <<"U+0444">>],
       [kind |-> "chars", pat |-> {"r"}, repl |-> <<"U+0440">>],
       [kind |-> "chars", pat |-> {"e"}, repl |-> <<"U+0435">>],
       [kind |-> "chars", pat |-> {"x"}, repl |-> <<"U+043A", "U+0441">>],
       [kind |-> "chars", pat |-> {"h"}, repl |-> <<"U+0445">>],
       [kind |-> "plus", pat |-> Whitespace, repl |-> <<" ">>] >>

(* The rule of line 192, applied after the Russian rules when lang is ru34. *)
rules_ru34 ==
    Append(rules_ru, [kind |-> "chars", pat |-> {"U+0451"}, repl |-> <<"U+0435">>])

(* The branch of the if/elif chain of lines 84-192 taken for a language. *)
rules(lang_) ==
    CASE lang_ = "en" -> rules_en
      [] lang_ = "fr" -> rules_fr
      [] lang_ = "de" -> rules_de
      [] lang_ = "it" -> rules_it
      [] lang_ = "es" -> rules_es
      [] lang_ = "ca" -> rules_ca
      [] lang_ = "pl" -> rules_pl
      [] lang_ = "ru" -> rules_ru
      [] lang_ = "ru34" -> rules_ru34

(* sub_chars with count=1: only the first occurrence is replaced. *)
RECURSIVE sub_chars_first(_, _, _)
sub_chars_first(pat, repl, t) ==
    IF t = <<>> THEN <<>>
    ELSE IF Head(t) \in pat THEN repl \o Tail(t)
         ELSE <<Head(t)>> \o sub_chars_first(pat, repl, Tail(t))

(* re.sub of an alternation of single characters: every occurrence of a
   character of pat is replaced by repl. *)
RECURSIVE sub_chars(_, _, _)
sub_chars(pat, repl, t) ==
    IF t = <<>> THEN <<>>
    ELSE (IF Head(t) \in pat THEN repl ELSE <<Head(t)>>) \o sub_chars(pat, repl, Tail(t))

(* re.sub of a literal of several characters: the leftmost occurrence is
   replaced and the scan resumes after it. *)
RECURSIVE sub_literal(_, _, _)
sub_literal(pat, repl, t) ==
    IF Len(t) < Len(pat) THEN t
    ELSE IF SubSeq(t, 1, Len(pat)) = pat
         THEN repl \o sub_literal(pat, repl, SubSeq(t, Len(pat) + 1, Len(t)))
         ELSE <<Head(t)>> \o sub_literal(pat, repl, Tail(t))

RECURSIVE skip_chars(_, _)
skip_chars(pat, t) ==
    IF t # <<>> /\ Head(t) \in pat THEN skip_chars(pat, Tail(t)) ELSE t

(* re.sub("\s+", " ", text): every maximal run of characters of pat is
   replaced by repl. *)
RECURSIVE sub_plus(_, _, _)
sub_plus(pat, repl, t) ==
    IF t = <<>> THEN <<>>
    ELSE IF Head(t) \in pat
         THEN repl \o sub_plus(pat, repl, skip_chars(pat, t))
         ELSE <<Head(t)>> \o sub_plus(pat, repl, Tail(t))

(* "".join(c for c in text if unicodedata.combining(c) == 0), line 95. *)
RECURSIVE drop_combining(_)
drop_combining(t) ==
    IF t = <<>> THEN <<>>
    ELSE (IF Head(t) \in Combining THEN <<>> ELSE <<Head(t)>>) \o drop_combining(Tail(t))

(* "".join(unidecode.unidecode(c) for c in text): the fallback on every
   character, vocabulary members included. *)
RECURSIVE transliterate_all(_, _)
transliterate_all(v, t) ==
    IF t = <<>> THEN <<>> ELSE unidecode(Head(t)) \o transliterate_all(v, Tail(t))

(* "".join((c if c in self.vocabulary else unidecode.unidecode(c)) for c in
   text), lines 151, 157, 163 and 171. *)
RECURSIVE transliterate(_, _)
transliterate(v, t) ==
    IF t = <<>> THEN <<>>
    ELSE (IF Head(t) \in Range(v) THEN <<Head(t)>> ELSE unidecode(Head(t)))
         \o transliterate(v, Tail(t))

(* One statement of the cascade. *)
apply_rule(r, v, t) ==
    CASE r.kind = "chars" -> sub_chars(r.pat, r.repl, t)
      [] r.kind = "literal" -> sub_literal(r.pat, r.repl, t)
      [] r.kind = "plus" -> sub_plus(r.pat, r.repl, t)
      [] r.kind = "combining" -> drop_combining(t)
      [] r.kind = "unidecode" -> transliterate(v, t)

(* The statements of a branch in order, each on the result of the one before. *)
RECURSIVE cascade(_, _, _)
cascade(rs, v, t) ==
    IF rs = <<>> THEN t ELSE cascade(Tail(rs), v, apply_rule(Head(rs), v, t))

(* re.sub(" $", "", text), line 194: $ matches at the end of the text and
   before a newline that ends it. *)
strip_end(t) ==
    IF Len(t) >= 1 /\ t[Len(t)] = " " THEN SubSeq(t, 1, Len(t) - 1)
    ELSE IF Len(t) >= 2 /\ t[Len(t)] = "\n" /\ t[Len(t) - 1] = " "
         THEN SubSeq(t, 1, Len(t) - 2) \o <<"\n">>
         ELSE t

(* Lines 82-194: the text that is encoded for a sentence, v being
   self.vocabulary. *)
normalize(lang_, v, s) == strip_end(cascade(rules(lang_), v, lower(s)))

(* encode with vocabulary_dict.get: a character that is not a key is skipped. *)
RECURSIVE encode_dropping(_, _)
encode_dropping(d, t) ==
    IF t = <<>> THEN [raised |-> FALSE, value |-> <<>>]
    ELSE [raised |-> FALSE,
          value |-> (IF Head(t) \in DOMAIN d THEN <<d[Head(t)]>> ELSE <<>>)
                    \o encode_dropping(d, Tail(t)).value]

(* Line 196: np.array([vocabulary_dict[c] for c in text]); a character that
   is not a key raises KeyError and no array is built. *)
encode(d, t) ==
    IF \A i \in 1..Len(t) : t[i] \in DOMAIN d
    THEN [raised |-> FALSE, value |-> [i \in 1..Len(t) |-> d[t[i]]]]
    ELSE [raised |-> TRUE, value |-> <<>>]

(* ---------------------------------------------------------------- *)
(* The inputs drawn                                                  *)
(* ---------------------------------------------------------------- *)

(* The characters sentences are drawn from, per language: letters of the
   vocabulary, characters its rules match, whitespace, and characters that
   neither the vocabulary nor a rule knows. *)
Alphabet(lang_) ==
    CASE lang_ = "en" -> {"a", "A", "'", " ", "\t", ".", ",", "&", "L87.1", "1"}
      [] lang_ = "fr" -> {"a", "'", " ", ".", ",", "&", "L101.1", "fr#28", "U+0301", "1"}
      [] lang_ = "de" -> {"a", "'", " ", "\n", ".", "&", "L129.1", "de#27", "1"}
      [] lang_ = "it" -> {"a", "'", " ", ".", ",", "&", "U+0060", "it#28", "U+00E3", "1"}
      [] lang_ = "es" -> {"a", "'", " ", ".", ",", "&", "{", "es#28", "U+00A0", "U+20AC"}
      [] lang_ = "ca" -> {"a", "'", " ", "\t", ".", "&", "@", "ca#28", "U+00E3", "1"}
      [] lang_ = "pl" -> {"a", "q", "x", "v", " ", ".", ",", "&", "pl#2", "U+00E3", "1"}
      [] lang_ = "ru" -> {"U+043F", "U+043E", "U+0451", "U+0410", "a", "x", "b", "-", " ", ",", "&"}
      [] lang_ = "ru34" -> {"U+043F", "U+043E", "U+0451", "U+0410", "a", "x", "b", "-", " ", ",", "&"}

(* The sentence of the English example, "Hello, World!". *)
HelloWorld == <<"H", "e", "l", "l", "o", ",", " ", "W", "o", "r", "l", "d", "!">>

SeqsUpTo(S, n) == UNION {[1..k -> S] : k \in 0..n}

Sentences(lang_) ==
    SeqsUpTo(Alphabet(lang_), MaxLen) \cup (IF lang_ = "en" THEN {HelloWorld} ELSE {})

(* The sentences of the rows of a metadata table: one that encodes in every
   language, one that does not, one that normalizes to the empty text, and
   one with the letter U+0451 that ru keeps and ru34 merges. *)
RowSentences == {<<"A", ".", " ">>, <<"a", "1">>, <<",">>, <<"U+043F", "U+0451">>}

(* The clip names of the path column. *)
ClipNames == {"c1.mp3", "c2.mp3"}

(* clip_file_name.replace(".mp3", ".wav"), line 78. *)
wav_file_name(name) ==
    CASE name = "c1.mp3" -> "c1.wav"
      [] name = "c2.mp3" -> "c2.wav"
      [] OTHER -> name

(* The subset argument: its default, line 36. *)
subset == "dev"

(* subset + ".tsv", line 61. *)
metainfo_file_name == "dev.tsv"

(* Paths are the sequences of their components (os.path.join). *)
root_dir_path == <<"root">>

(* The language directory without lines 57-58: named by the code itself. *)
data_dir_path_of_code(lang_) == Append(root_dir_path, lang_)

(* Lines 57-58: ru34 reads the directory of ru. *)
data_dir_path(lang_) == Append(root_dir_path, IF lang_ # "ru34" THEN lang_ ELSE "ru")

metainfo_file_path(lang_) == Append(data_dir_path(lang_), metainfo_file_name)

clips_dir_path(lang_) == Append(data_dir_path(lang_), "clips")

mp3_file_path(lang_, name) == Append(clips_dir_path(lang_), name)

wav_file_path(lang_, name) == Append(clips_dir_path(lang_), wav_file_name(name))

(* The file systems the constructor is started on: every prefix of the
   layout root / <lang> / {<subset>.tsv, clips / <clip files>}, with the clips
   and their wav files partly present. *)
FileSystems(lang_) ==
    LET d == data_dir_path(lang_)
        base == {root_dir_path, d, metainfo_file_path(lang_), clips_dir_path(lang_)}
        c1 == mp3_file_path(lang_, "c1.mp3")
        c2 == mp3_file_path(lang_, "c2.mp3")
        w1 == wav_file_path(lang_, "c1.mp3")
    IN  {{}, {root_dir_path}, {root_dir_path, d},
         {root_dir_path, d, metainfo_file_path(lang_)},
         {root_dir_path, d, clips_dir_path(lang_)},
         base \cup {c1, c2}, base \cup {c1}, base \cup {c1, c2, w1}}

(* The sample rates librosa.load reports. *)
SampleRates == {16000, 48000}

desired_audio_sample_rate == 16000

Event(op, path) == [op |-> op, path |-> path]

(* A call of a factory: its family, the constants the factory function
   passes to get_<family>, and the classes keyword (0: not given). *)
Call(family, blocks, bottleneck, alpha, dataset, ratio, width_scale, classes) ==
    [family |-> family, blocks |-> blocks, bottleneck |-> bottleneck, alpha |-> alpha,
     dataset |-> dataset, ratio |-> ratio, width_scale |-> width_scale, classes |-> classes]

NoCall == Call("", 0, FALSE, 0, "", 0, 0, 0)

NoArgs ==
    [channels |-> <<>>, init_block_channels |-> 0, final_block_channels |-> 0, classes |-> 0]

NoLocals == [in_channels |-> 0, in_size |-> 0, i |-> 0, j |-> 0]

(* No factory is called. *)
NetIdle ==
    /\ model = NoCall
    /\ npc = "idle"
    /\ args = NoArgs
    /\ locals = NoLocals
    /\ features = <<>>
    /\ output = <<>>
    /\ y = <<>>
    /\ pretrained = FALSE
    /\ model_name = <<>>
    /\ loaded = <<>>
    /\ error = ""

(* No McvMetaInfo is constructed. *)
MetaIdle ==
    /\ metainfo = [label |-> ""]
    /\ calls = <<>>

(* ---------------------------------------------------------------- *)
(* McvDataset.__init__                                               *)
(* ---------------------------------------------------------------- *)

(* The call after super().__init__ (lines 38-41) returned: data is the empty
   list, nothing else is set. *)
Init ==
    /\ lang \in Langs
    /\ pc = "assert_lang"
    /\ vocabulary = <<>>
    /\ vocabulary_dict = <<>>
    /\ exists \in (IF lang \in SupportedLangs THEN FileSystems(lang) ELSE FileSystems("en"))
    /\ total = 0
    /\ rows = <<>>
    /\ clip_file_name = ""
    /\ sentence = <<>>
    /\ text = <<>>
    /\ data = <<>>
    /\ failure = "none"
    /\ events = <<>>
    /\ NetIdle
    /\ MetaIdle

(* Raising leaves everything but the failure as it is. *)
Raise(e) ==
    /\ failure' = e
    /\ pc' = "raised"

(* AssertLang without the assert of line 42. *)
AssertLangOmitted ==
    /\ pc = "assert_lang"
    /\ pc' = "get_vocabulary"
    /\ UNCHANGED <<lang, vocabulary, vocabulary_dict, exists, total, rows, clip_file_name, sentence,
                   text, data, failure, events>>
    /\ UNCHANGED <<net_vars, meta_vars>>

(* Line 42. *)
AssertLang ==
    /\ pc = "assert_lang"
    /\ IF lang \in SupportedLangs
       THEN pc' = "get_vocabulary" /\ UNCHANGED failure
       ELSE Raise("AssertionError")
    /\ UNCHANGED <<lang, vocabulary, vocabulary_dict, exists, total, rows, clip_file_name, sentence,
                   text, data, events>>
    /\ UNCHANGED <<net_vars, meta_vars>>

(* Lines 43-46. *)
GetVocabulary ==
    /\ pc = "get_vocabulary"
    /\ events' = Append(events, Event("get_vocabulary_for_lang", <<>>))
    /\ LET r == get_vocabulary_for_lang(lang)
       IN  IF r.raised
           THEN /\ Raise("AssertionError")
                /\ UNCHANGED <<vocabulary, vocabulary_dict>>
           ELSE /\ vocabulary' = r.value
                /\ vocabulary_dict' = make_vocabulary_dict(r.value)
                /\ pc' = "root_dir"
                /\ UNCHANGED failure
    /\ UNCHANGED <<lang, exists, total, rows, clip_file_name, sentence, text, data>>
    /\ UNCHANGED <<net_vars, meta_vars>>

(* assert os.path.exists(path), then go to the next statement. *)
AssertExists(path, next) ==
    /\ events' = Append(events, Event("exists", path))
    /\ IF path \in exists
       THEN pc' = next /\ UNCHANGED failure
       ELSE Raise("AssertionError")

(* Lines 54-55. *)
CheckRootDir ==
    /\ pc = "root_dir"
    /\ AssertExists(root_dir_path, "data_dir")
    /\ UNCHANGED <<lang, vocabulary, vocabulary_dict, exists, total, rows, clip_file_name, sentence,
                   text, data>>
    /\ UNCHANGED <<net_vars, meta_vars>>

(* Lines 57-59. *)
CheckDataDir ==
    /\ pc = "data_dir"
    /\ AssertExists(data_dir_path(lang), "metainfo")
    /\ UNCHANGED <<lang, vocabulary, vocabulary_dict, exists, total, rows, clip_file_name, sentence,
                   text, data>>
    /\ UNCHANGED <<net_vars, meta_vars>>

(* Lines 61-62. *)
CheckMetainfo ==
    /\ pc = "metainfo"
    /\ AssertExists(metainfo_file_path(lang), "read_csv")
    /\ UNCHANGED <<lang, vocabulary, vocabulary_dict, exists, total, rows, clip_file_name, sentence,
                   text, data>>
    /\ UNCHANGED <<net_vars, meta_vars>>

(* Lines 63-70: the table is read; it has any number of rows. *)
ReadMetainfo ==
    /\ pc = "read_csv"
    /\ \E n \in 0..MaxRows : total' = n
    /\ events' = Append(events, Event("read_csv", metainfo_file_path(lang)))
    /\ pc' = "clips_dir"
    /\ UNCHANGED <<lang, vocabulary, vocabulary_dict, exists, rows, clip_file_name, sentence,
                   text, data, failure>>
    /\ UNCHANGED <<net_vars, meta_vars>>

(* Lines 72-73 with a test that is not fatal: the loop is entered whether
   the clips directory exists or not. *)
CheckClipsDirAndGoOn ==
    /\ pc = "clips_dir"
    /\ events' = Append(events, Event("exists", clips_dir_path(lang)))
    /\ pc' = "for"
    /\ UNCHANGED <<lang, vocabulary, vocabulary_dict, exists, total, rows, clip_file_name, sentence,
                   text, data, failure>>
    /\ UNCHANGED <<net_vars, meta_vars>>

(* Lines 72-73. *)
CheckClipsDir ==
    /\ pc = "clips_dir"
    /\ AssertExists(clips_dir_path(lang), "for")
    /\ UNCHANGED <<lang, vocabulary, vocabulary_dict, exists, total, rows, clip_file_name, sentence,
                   text, data>>
    /\ UNCHANGED <<net_vars, meta_vars>>

(* NextRow without the assert of line 77: the row is processed whether or
   not its mp3 file exists. *)
NextRowUnchecked ==
    /\ pc = "for"
    /\ IF Len(rows) = total
       THEN /\ pc' = "done"
            /\ UNCHANGED <<rows, clip_file_name, sentence, events>>
       ELSE \E name \in ClipNames, s \in RowSentences :
                /\ rows' = Append(rows, [path |-> name, sentence |-> s])
                /\ clip_file_name' = name
                /\ sentence' = s
                /\ events' = Append(events, Event("exists", mp3_file_path(lang, name)))
                /\ pc' = "text"
    /\ UNCHANGED <<lang, vocabulary, vocabulary_dict, exists, total, text, data, failure>>
    /\ UNCHANGED <<net_vars, meta_vars>>

(* Lines 75-79: the next row of the table, or the end of the loop; a row
   whose mp3 file is missing fails the assert of line 77.  rows holds the
   rows of data_paths and data_sentences taken so far. *)
NextRow ==
    /\ pc = "for"
    /\ IF Len(rows) = total
       THEN /\ pc' = "done"
            /\ UNCHANGED <<rows, clip_file_name, sentence, events, failure>>
       ELSE \E name \in ClipNames, s \in RowSentences :
                /\ rows' = Append(rows, [path |-> name, sentence |-> s])
                /\ clip_file_name' = name
                /\ sentence' = s
                /\ AssertExists(mp3_file_path(lang, name), "text")
    /\ UNCHANGED <<lang, vocabulary, vocabulary_dict, exists, total, text, data>>
    /\ UNCHANGED <<net_vars, meta_vars>>

(* NormalizeText with the text of the row before kept: the cascade result
   is appended to it. *)
NormalizeTextStale ==
    /\ pc = "text"
    /\ text' = text \o normalize(lang, vocabulary, sentence)
    /\ events' = Append(events, Event("normalize", <<>>))
    /\ pc' = "encode"
    /\ UNCHANGED <<lang, vocabulary, vocabulary_dict, exists, total, rows, clip_file_name, sentence,
                   data, failure>>
    /\ UNCHANGED <<net_vars, meta_vars>>

(* Lines 82-194. *)
NormalizeText ==
    /\ pc = "text"
    /\ text' = normalize(lang, vocabulary, sentence)
    /\ events' = Append(events, Event("normalize", <<>>))
    /\ pc' = "encode"
    /\ UNCHANGED <<lang, vocabulary, vocabulary_dict, exists, total, rows, clip_file_name, sentence,
                   data, failure>>
    /\ UNCHANGED <<net_vars, meta_vars>>

(* EncodeText with line 197 moved after the "continue" of line 201: no pair
   is appended for a row whose wav file exists. *)
EncodeTextSkipExisting ==
    /\ pc = "encode"
    /\ events' = Append(events, Event("encode", <<>>))
    /\ LET r == encode(vocabulary_dict, text)
       IN  IF r.raised
           THEN /\ Raise("KeyError")
                /\ UNCHANGED data
           ELSE /\ data' = IF wav_file_path(lang, clip_file_name) \in exists
                           THEN data
                           ELSE Append(data, <<wav_file_path(lang, clip_file_name), r.value>>)
                /\ pc' = "wav"
                /\ UNCHANGED failure
    /\ UNCHANGED <<lang, vocabulary, vocabulary_dict, exists, total, rows, clip_file_name, sentence,
                   text>>
    /\ UNCHANGED <<net_vars, meta_vars>>

(* Lines 196-197: the label is built whole before the pair is appended, so
   a KeyError appends nothing. *)
EncodeText ==
    /\ pc = "encode"
    /\ events' = Append(events, Event("encode", <<>>))
    /\ LET r == encode(vocabulary_dict, text)
       IN  IF r.raised
           THEN /\ Raise("KeyError")
                /\ UNCHANGED data
           ELSE /\ data' = Append(data, <<wav_file_path(lang, clip_file_name), r.value>>)
                /\ pc' = "wav"
                /\ UNCHANGED failure
    /\ UNCHANGED <<lang, vocabulary, vocabulary_dict, exists, total, rows, clip_file_name, sentence,
                   text>>
    /\ UNCHANGED <<net_vars, meta_vars>>

(* Lines 203-206 without the test of lines 200-201: the mp3 is loaded
   whether the wav file exists or not. *)
ConvertAudioAgain ==
    /\ pc = "wav"
    /\ LET wav == wav_file_path(lang, clip_file_name)
           mp3 == mp3_file_path(lang, clip_file_name)
       IN  \E sr \in SampleRates :
               IF desired_audio_sample_rate # sr
               THEN /\ events' = events \o <<Event("load", mp3), Event("resample", mp3),
                                              Event("write", wav)>>
                    /\ exists' = exists \cup {wav}
               ELSE /\ events' = Append(events, Event("load", mp3))
                    /\ UNCHANGED exists
    /\ pc' = "for"
    /\ UNCHANGED <<lang, vocabulary, vocabulary_dict, total, rows, clip_file_name, sentence,
                   text, data, failure>>
    /\ UNCHANGED <<net_vars, meta_vars>>

(* Lines 200-206: an existing wav file is kept; otherwise the mp3 is loaded
   and, only when its sample rate is not the desired one, resampled and
   written. *)
ConvertAudio ==
    /\ pc = "wav"
    /\ LET wav == wav_file_path(lang, clip_file_name)
           mp3 == mp3_file_path(lang, clip_file_name)
       IN  IF wav \in exists
           THEN /\ events' = Append(events, Event("exists", wav))
                /\ UNCHANGED exists
           ELSE \E sr \in SampleRates :
                    IF desired_audio_sample_rate # sr
                    THEN /\ events' = events \o <<Event("exists", wav), Event("load", mp3),
                                                   Event("resample", mp3), Event("write", wav)>>
                         /\ exists' = exists \cup {wav}
                    ELSE /\ events' = events \o <<Event("exists", wav), Event("load", mp3)>>
                         /\ UNCHANGED exists
    /\ pc' = "for"
    /\ UNCHANGED <<lang, vocabulary, vocabulary_dict, total, rows, clip_file_name, sentence,
                   text, data, failure>>
    /\ UNCHANGED <<net_vars, meta_vars>>

Next ==
    \/ AssertLang
    \/ GetVocabulary
    \/ CheckRootDir
    \/ CheckDataDir
    \/ CheckMetainfo
    \/ ReadMetainfo
    \/ CheckClipsDir
    \/ NextRow
    \/ NormalizeText
    \/ EncodeText
    \/ ConvertAudio

Spec == Init /\ [][Next]_vars

(* ---------------------------------------------------------------- *)
(* The loop body on any sentence                                     *)
(* ---------------------------------------------------------------- *)

(* The constructor at line 82 of the first row, for a supported language and
   any sentence of that row: the state NextRow leaves, on a file system
   that holds the clip. *)
InitText ==
    /\ lang \in SupportedLangs
    /\ pc = "text"
    /\ vocabulary = get_vocabulary_for_lang(lang).value
    /\ vocabulary_dict = make_vocabulary_dict(get_vocabulary_for_lang(lang).value)
    /\ exists = {root_dir_path, data_dir_path(lang), metainfo_file_path(lang),
                 clips_dir_path(lang), mp3_file_path(lang, "c1.mp3")}
    /\ total = 1
    /\ clip_file_name = "c1.mp3"
    /\ sentence \in Sentences(lang)
    /\ rows = <<[path |-> clip_file_name, sentence |-> sentence]>>
    /\ text = <<>>
    /\ data = <<>>
    /\ failure = "none"
    /\ events = <<Event("get_vocabulary_for_lang", <<>>),
                  Event("exists", root_dir_path),
                  Event("exists", data_dir_path(lang)),
                  Event("exists", metainfo_file_path(lang)),
                  Event("read_csv", metainfo_file_path(lang)),
                  Event("exists", clips_dir_path(lang)),
                  Event("exists", mp3_file_path(lang, "c1.mp3"))>>
    /\ NetIdle
    /\ MetaIdle

NextText ==
    \/ NormalizeText
    \/ EncodeText

SpecText == InitText /\ [][NextText]_vars

(* ---------------------------------------------------------------- *)
(* The model factories of gluoncv2/models                            *)
(* ---------------------------------------------------------------- *)

(* [c] * n *)
Repeat(c, n) == [k \in 1..n |-> c]

(* int(round(p / q)) for p >= 0 and q > 0: Python rounds a half to the even
   neighbour. *)
round(p, q) ==
    LET f == p \div q
        r == 2 * (p % q)
    IN  IF r < q THEN f ELSE IF r > q THEN f + 1 ELSE IF f % 2 = 0 THEN f ELSE f + 1

(* What a factory hands to the constructor when its assertions hold. *)
Built(channels, init_block_channels, final_block_channels) ==
    [raised |-> FALSE, error |-> "", channels |-> channels,
     init_block_channels |-> init_block_channels, final_block_channels |-> final_block_channels]

(* What a factory raises before it reaches the constructor. *)
Failed(e) ==
    [raised |-> TRUE, error |-> e, channels |-> <<>>, init_block_channels |-> 0,
     final_block_channels |-> 0]

(* seresnet_cifar.py, lines 122-137. *)
get_seresnet_cifar(classes, blocks, bottleneck) ==
    LET d == IF bottleneck THEN 9 ELSE 6
        layers == Repeat((blocks - 2) \div d, 3)
        channels_per_layers == <<16, 32, 64>>
        channels == [s \in 1..3 |-> Repeat(channels_per_layers[s], layers[s])]
    IN  IF classes \notin {10, 100} \/ (blocks - 2) % d # 0
        THEN Failed("AssertionError")
        ELSE Built(IF bottleneck
                   THEN [s \in 1..3 |-> [k \in 1..Len(channels[s]) |-> channels[s][k] * 4]]
                   ELSE channels,
                   16, 0)

(* pyramidnet_cifar.py, lines 128-147.  growth_add is alpha / sum(layers);
   the reduce gives the unit at 0-based position i of a stage the width
   (i + 1) * growth_add above the last width of the stage before, 16 for the
   first stage, so the k-th unit of the network has 16 + k * growth_add,
   rounded.  The widths are computed in exact arithmetic; line 138 divides
   by sum(layers), which is 0 for blocks = 2. *)
get_pyramidnet_cifar(classes, blocks, alpha, bottleneck) ==
    LET d == IF bottleneck THEN 9 ELSE 6
        layers == Repeat((blocks - 2) \div d, 3)
        sum == layers[1] + layers[2] + layers[3]
        before(s) == IF s = 1 THEN 0 ELSE IF s = 2 THEN layers[1] ELSE layers[1] + layers[2]
        channels == [s \in 1..3 |->
                        [k \in 1..layers[s] |-> 16 + round((before(s) + k) * alpha, sum)]]
    IN  IF classes \notin {10, 100} \/ (blocks - 2) % d # 0
        THEN Failed("AssertionError")
        ELSE IF sum = 0
        THEN Failed("ZeroDivisionError")
        ELSE Built(IF bottleneck
                   THEN [s \in 1..3 |-> [k \in 1..Len(channels[s]) |-> channels[s][k] * 4]]
                   ELSE channels,
                   16, 0)

(* airnext.py, lines 269-282; an unsupported depth raises ValueError. *)
get_airnext(blocks, base_channels) ==
    LET layers == IF blocks = 50 THEN <<3, 4, 6, 3>> ELSE <<3, 4, 23, 3>>
        bottleneck_expansion == 4
        channels_per_layers ==
            [s \in 1..Len(layers) |-> base_channels * (2 ^ (s - 1)) * bottleneck_expansion]
    IN  IF blocks \notin {50, 101}
        THEN Failed("ValueError")
        ELSE Built([s \in 1..Len(layers) |-> Repeat(channels_per_layers[s], layers[s])],
                   base_channels, 0)

(* shufflenetv2b.py, lines 245-256.  width_scale is n / 29 and is given by
   its numerator n; int() truncates, and the products are computed in exact
   arithmetic. *)
get_shufflenetv2b(width_scale) ==
    LET layers == <<4, 8, 4>>
        channels_per_layers == <<116, 232, 464>>
        scaled(c) == IF width_scale # 29 THEN (c * width_scale) \div 29 ELSE c
    IN  Built([s \in 1..3 |-> Repeat(scaled(channels_per_layers[s]), layers[s])],
              24,
              IF width_scale # 29 /\ 2 * width_scale > 3 * 29
              THEN (1024 * width_scale) \div 29
              ELSE 1024)

Datasets == {"cifar10", "cifar100", "svhn"}

(* The classes keywords given to a factory: none, or a number. *)
ClassesGiven == {0, 100, 1000}

(* seresnet20_cifar10 ... seresnet1202_svhn, seresnet_cifar.py lines 159-599. *)
seresnet_cifar_factories ==
    {Call("seresnet_cifar", d[1], d[2], 0, ds, 0, 0, c) :
        d \in {<<20, FALSE>>, <<56, FALSE>>, <<110, FALSE>>, <<164, TRUE>>, <<272, TRUE>>,
               <<542, TRUE>>, <<1001, TRUE>>, <<1202, FALSE>>},
        ds \in Datasets, c \in ClassesGiven}

(* pyramidnet110_a48_cifar10 ... pyramidnet272_a200_bn_svhn,
   pyramidnet_cifar.py lines 169-683. *)
pyramidnet_cifar_factories ==
    {Call("pyramidnet_cifar", d[1], d[3], d[2], ds, 0, 0, c) :
        d \in {<<110, 48, FALSE>>, <<110, 84, FALSE>>, <<110, 270, FALSE>>, <<164, 270, TRUE>>,
               <<200, 240, TRUE>>, <<236, 220, TRUE>>, <<272, 200, TRUE>>},
        ds \in Datasets, c \in ClassesGiven}

(* airnext50_32x4d_r2, airnext101_32x4d_r2, airnext101_32x4d_r16, airnext.py
   lines 310-379. *)
airnext_factories ==
    {Call("airnext", d[1], FALSE, 0, "", d[2], 0, c) :
        d \in {<<50, 2>>, <<101, 2>>, <<101, 16>>}, c \in ClassesGiven}

(* shufflenetv2b_wd2, _w1, _w3d2, _w2: width_scale 12/29, 1, 44/29, 61/29,
   shufflenetv2b.py lines 277-358. *)
shufflenetv2b_factories ==
    {Call("shufflenetv2b", 0, FALSE, 0, "", 0, w, c) : w \in {12, 29, 44, 61}, c \in ClassesGiven}

(* The sum of a list of widths. *)
RECURSIVE Sum(_)
Sum(s) == IF s = <<>> THEN 0 ELSE Head(s) + Sum(Tail(s))

(* DLAResBlock.__init__, dla.py lines 105-134; the body is a block of
   another file that takes in_channels to out_channels. *)
DLAResBlock(in_channels, out_channels_, strides_, return_down) ==
    [block |-> "DLAResBlock", in_channels |-> in_channels, out_channels |-> out_channels_,
     strides |-> strides_, return_down |-> return_down, downsample |-> strides_ > 1,
     project |-> in_channels # out_channels_]

(* DLAResBlock.hybrid_forward, lines 136-147, for an input of x channels:
   the pooling keeps the width, project_conv and the body take only
   in_channels, and the sum needs equal widths.  The result is the width of
   x and of down. *)
DLAResBlock_hybrid_forward(b, x) ==
    LET down == x
        identity == IF b.project
                    THEN (IF down = b.in_channels THEN b.out_channels ELSE 0)
                    ELSE down
        body == IF x = b.in_channels THEN b.out_channels ELSE 0
    IN  IF identity = 0 \/ body = 0 \/ body # identity
        THEN [raised |-> TRUE, x |-> 0, down |-> 0]
        ELSE [raised |-> FALSE, x |-> body, down |-> down]

(* DLARoot.__init__, lines 165-180. *)
DLARoot(in_channels, out_channels_, residual) ==
    [block |-> "DLARoot", in_channels |-> in_channels, out_channels |-> out_channels_,
     residual |-> residual]

(* DLARoot.hybrid_forward, lines 182-189: the widths of x2, x1 and extra
   are concatenated, conv takes only in_channels, and the residual sum needs
   the width of x2. *)
DLARoot_hybrid_forward(b, x2, x1, extra) ==
    LET x == x2 + x1 + Sum(extra)
    IN  IF x # b.in_channels \/ (b.residual /\ b.out_channels # x2)
        THEN [raised |-> TRUE, x |-> 0, concat |-> x]
        ELSE [raised |-> FALSE, x |-> b.out_channels, concat |-> x]

(* The blocks of a tree, each with its path from the tree: 1 for tree1, 2 for
   tree2 (lines 247-283). *)
Below(branch, tree) == {[n EXCEPT !.path = <<branch>> \o n.path] : n \in tree}

(* DLATree.__init__ with tree2 given the root_dim of the tree, without the
   out_channels line 280 adds for x1. *)
RECURSIVE DLATree_same_root_dim(_, _, _, _, _, _, _, _, _)
DLATree_same_root_dim(levels, in_channels, out_channels_, strides_, root_residual, root_dim, first_tree, input_level, return_down) ==
    LET add_down == input_level /\ ~first_tree
        root_level == levels = 1
        root_dim1 == IF root_dim = 0 THEN 2 * out_channels_ ELSE root_dim
        root_dim2 == IF add_down THEN root_dim1 + in_channels ELSE root_dim1
    IN  IF root_level
        THEN {[path |-> <<>>, levels |-> levels, return_down |-> return_down,
               add_down |-> add_down, root_level |-> root_level,
               tree1 |-> DLAResBlock(in_channels, out_channels_, strides_, TRUE),
               tree2 |-> DLAResBlock(out_channels_, out_channels_, 1, FALSE),
               root |-> DLARoot(root_dim2, out_channels_, root_residual)]}
        ELSE {[path |-> <<>>, levels |-> levels, return_down |-> return_down,
               add_down |-> add_down, root_level |-> root_level]}
             \cup Below(1, DLATree_same_root_dim(levels - 1, in_channels, out_channels_, strides_,
                                   root_residual, 0, FALSE, FALSE, TRUE))
             \cup Below(2, DLATree_same_root_dim(levels - 1, out_channels_, out_channels_, 1,
                                   root_residual, root_dim2, FALSE, FALSE,
                                   FALSE))

(* DLATree.__init__, lines 221-288: the DLATree blocks of the tree, the
   tree itself with the path <<>>.  A tree of one level has two DLAResBlock
   and a root; a higher tree has two trees of one level less. *)
RECURSIVE DLATree(_, _, _, _, _, _, _, _, _)
DLATree(levels, in_channels, out_channels_, strides_, root_residual, root_dim, first_tree, input_level, return_down) ==
    LET add_down == input_level /\ ~first_tree
        root_level == levels = 1
        root_dim1 == IF root_dim = 0 THEN 2 * out_channels_ ELSE root_dim
        root_dim2 == IF add_down THEN root_dim1 + in_channels ELSE root_dim1
    IN  IF root_level
        THEN {[path |-> <<>>, levels |-> levels, return_down |-> return_down,
               add_down |-> add_down, root_level |-> root_level,
               tree1 |-> DLAResBlock(in_channels, out_channels_, strides_, TRUE),
               tree2 |-> DLAResBlock(out_channels_, out_channels_, 1, FALSE),
               root |-> DLARoot(root_dim2, out_channels_, root_residual)]}
        ELSE {[path |-> <<>>, levels |-> levels, return_down |-> return_down,
               add_down |-> add_down, root_level |-> root_level]}
             \cup Below(1, DLATree(levels - 1, in_channels, out_channels_, strides_,
                                   root_residual, 0, FALSE, FALSE, TRUE))
             \cup Below(2, DLATree(levels - 1, out_channels_, out_channels_, 1,
                                   root_residual, root_dim2 + out_channels_, FALSE, FALSE,
                                   FALSE))

(* DLATree.hybrid_forward, lines 290-304, of the block at a path of a tree,
   for an input of x channels and the widths extra: the widths of the result
   and of down, and every concatenation a root made, with the path of its
   tree. *)
RECURSIVE DLATree_hybrid_forward(_, _, _, _)
DLATree_hybrid_forward(tree, path, x, extra) ==
    LET t == CHOOSE n \in tree : n.path = path
        r1 == IF t.root_level THEN DLAResBlock_hybrid_forward(t.tree1, x)
              ELSE DLATree_hybrid_forward(tree, Append(path, 1), x, <<>>)
        down == r1.down
        extra1 == IF t.add_down THEN Append(extra, down) ELSE extra
        x1 == r1.x
        x2 == DLAResBlock_hybrid_forward(t.tree2, x1)
        root == DLARoot_hybrid_forward(t.root, x2.x, x1, extra1)
        r2 == DLATree_hybrid_forward(tree, Append(path, 2), x1, Append(extra1, x1))
        roots1 == IF t.root_level THEN {} ELSE r1.roots
        failed == [raised |-> TRUE, x |-> 0, down |-> 0, roots |-> roots1]
    IN  IF r1.raised THEN failed
        ELSE IF t.root_level
        THEN (IF x2.raised THEN failed
              ELSE [raised |-> root.raised, x |-> root.x, down |-> down,
                    roots |-> {[path |-> path, concat |-> root.concat,
                                in_channels |-> t.root.in_channels]}])
        ELSE [raised |-> r2.raised, x |-> r2.x, down |-> down,
              roots |-> roots1 \cup r2.roots]

(* get_dla, dla.py lines 431-470: the arguments of DLA. *)
get_dla(levels, channels, res_body_class, residual_root) ==
    [raised |-> FALSE, error |-> "", levels |-> levels, channels |-> channels,
     init_block_channels |-> 32, res_body_class |-> res_body_class,
     residual_root |-> residual_root]

(* A call of get_dla. *)
DLACall(levels, channels, res_body_class, residual_root, classes) ==
    [family |-> "dla", levels |-> levels, channels |-> channels,
     res_body_class |-> res_body_class, residual_root |-> residual_root, classes |-> classes]

(* dla34 ... dla169, dla.py lines 485-657. *)
dla_factories ==
    {DLACall(d[1], d[2], d[3], d[4], c) :
        d \in {<<<<1, 2, 2, 1>>, <<64, 128, 256, 512>>, "ResBlock", FALSE>>,
               <<<<1, 2, 2, 1>>, <<64, 64, 128, 256>>, "DLABottleneck", FALSE>>,
               <<<<1, 2, 2, 1>>, <<64, 64, 128, 256>>, "DLABottleneckX", FALSE>>,
               <<<<1, 2, 3, 1>>, <<128, 256, 512, 1024>>, "DLABottleneck", FALSE>>,
               <<<<1, 2, 3, 1>>, <<128, 256, 512, 1024>>, "DLABottleneckX", FALSE>>,
               <<<<1, 2, 3, 1>>, <<64, 64, 128, 256>>, "DLABottleneckX", FALSE>>,
               <<<<1, 3, 4, 1>>, <<128, 256, 512, 1024>>, "DLABottleneck", TRUE>>,
               <<<<1, 3, 4, 1>>, <<128, 256, 512, 1024>>, "DLABottleneckX", TRUE>>,
               <<<<1, 3, 4, 1>>, <<128, 256, 512, 1024>>, "DLABottleneckX64", TRUE>>,
               <<<<2, 3, 5, 1>>, <<128, 256, 512, 1024>>, "DLABottleneck", TRUE>>},
        c \in ClassesGiven}

(* Calls of get_dla (lines 431-482) that no public factory makes: a first
   tree of three levels, and a later tree whose input has the width of its
   output. *)
dla_direct ==
    {DLACall(<<3, 1, 2>>, <<16, 24, 24>>, "ResBlock", r, c) : r \in BOOLEAN, c \in ClassesGiven}

(* None where a block class is expected. *)
NoClass == "None"

(* PolyConv.__init__, polynet.py lines 40-62: a convolution and the
   BatchNorm layers bn1 ... bn<num_blocks>, kept by their numbers. *)
PolyConv(in_channels, out_channels_, num_blocks) ==
    [in_channels |-> in_channels, out_channels |-> out_channels_, bn |-> 1..num_blocks]

(* PolyConvSeqBranch.__init__, lines 251-277: the PolyConv of the list, each
   taking the width of the one before. *)
PolyConvSeqBranch(in_channels, out_channels_list, num_blocks) ==
    [k \in 1..Len(out_channels_list) |->
        PolyConv(IF k = 1 THEN in_channels ELSE out_channels_list[k - 1], out_channels_list[k],
                 num_blocks)]

(* PolyPreBBlock.__init__ (lines 426-447) and PolyPreCBlock.__init__ (lines
   469-490): the two branches, the second a poly_conv1x1. *)
PolyPreBlock(pre_block, num_blocks) ==
    LET in_channels == IF pre_block = "PolyPreBBlock" THEN 1152 ELSE 2048
        out_channels_list == IF pre_block = "PolyPreBBlock" THEN <<128, 160, 192>>
                             ELSE <<192, 224, 256>>
    IN  [block |-> pre_block, in_channels |-> in_channels,
         branches |-> <<PolyConvSeqBranch(in_channels, out_channels_list, num_blocks),
                        <<PolyConv(in_channels, 192, num_blocks)>>>>]

(* PolyResidual.__init__ with a pre_block of one BatchNorm layer less. *)
PolyResidual_short(scale, res_block, num_blocks, pre_block) ==
    [raised |-> num_blocks < 1, scale |-> scale, num_blocks |-> num_blocks,
     pre_block |-> PolyPreBlock(pre_block, num_blocks - 1), res_block |-> res_block]

(* PolyResidual.__init__, lines 588-606: the assertion, the pre_block with
   num_blocks BatchNorm layers in each PolyConv, and num_blocks res_block. *)
PolyResidual(scale, res_block, num_blocks, pre_block) ==
    [raised |-> num_blocks < 1, scale |-> scale, num_blocks |-> num_blocks,
     pre_block |-> PolyPreBlock(pre_block, num_blocks), res_block |-> res_block]

(* The width poly_res_b_block (lines 497-511) and poly_res_c_block (lines
   514-528) take and give. *)
poly_res_block(res_block) ==
    IF res_block = "poly_res_b_block" THEN [in_channels |-> 384, out_channels |-> 1152]
    ELSE [in_channels |-> 448, out_channels |-> 2048]

(* PolyResidual.hybrid_forward, lines 608-617, for an input of x channels:
   each PolyConv of the pre_block looks up bn<index + 1> (lines 64-69), the
   branches are concatenated, and res_block gives the next x. *)
RECURSIVE PolyResidual_hybrid_forward(_, _, _)
PolyResidual_hybrid_forward(poly, x, index) ==
    LET pre == poly.pre_block
        convs == pre.branches[1] \o pre.branches[2]
        res == poly_res_block(poly.res_block)
        found == \A k \in 1..Len(convs) : (index + 1) \in convs[k].bn
        concat == pre.branches[1][Len(pre.branches[1])].out_channels
                      + pre.branches[2][1].out_channels
    IN  IF index = poly.num_blocks THEN [raised |-> FALSE, error |-> "", channels |-> x]
        ELSE IF ~found THEN [raised |-> TRUE, error |-> "AttributeError", channels |-> 0]
        ELSE IF x # pre.in_channels \/ concat # res.in_channels
        THEN [raised |-> TRUE, error |-> "MXNetError", channels |-> 0]
        ELSE PolyResidual_hybrid_forward(poly, res.out_channels, index + 1)

(* PolyBaseUnit.__init__, lines 639-667; the scales are given in
   millionths. *)
PolyBaseUnit(two_way_scale, two_way_block, poly_scale, poly_res_block_, poly_pre_block) ==
    LET poly == PolyResidual(poly_scale, poly_res_block_, 3, poly_pre_block)
        twoway == [scale |-> two_way_scale, res_block |-> two_way_block, num_blocks |-> 2]
    IN  IF poly_res_block_ # NoClass
        THEN [raised |-> poly_scale = 0 \/ poly_pre_block = NoClass \/ poly.raised,
              has_poly |-> TRUE, poly |-> poly, twoway |-> twoway]
        ELSE [raised |-> poly_scale # 0 \/ poly_pre_block # NoClass,
              has_poly |-> FALSE, twoway |-> twoway]

(* PolyAUnit.__init__ (lines 689-699, the assertion of line 699 included),
   PolyBUnit.__init__ (lines 715-727) and PolyCUnit.__init__ (lines
   743-755). *)
PolyUnit(unit, two_way_scale, poly_scale) ==
    LET a == PolyBaseUnit(two_way_scale, "TwoWayABlock", 0, NoClass, NoClass)
    IN  CASE unit = "PolyAUnit" -> [a EXCEPT !.raised = a.raised \/ poly_scale # 0]
          [] unit = "PolyBUnit" -> PolyBaseUnit(two_way_scale, "TwoWayBBlock", poly_scale,
                                               "poly_res_b_block", "PolyPreBBlock")
          [] unit = "PolyCUnit" -> PolyBaseUnit(two_way_scale, "TwoWayCBlock", poly_scale,
                                               "poly_res_c_block", "PolyPreCBlock")

(* The width of the units of stage i (0-based): in_channels of TwoWayABlock,
   TwoWayBBlock and TwoWayCBlock, lines 297, 344 and 384. *)
poly_channels == <<384, 1152, 2048>>

(* get_polynet, polynet.py lines 1068-1080: the scales it hands to PolyNet,
   in millionths. *)
get_polynet ==
    [raised |-> FALSE, error |-> "",
     two_way_scales |->
        <<<<1000000, 992308, 984615, 976923, 969231, 961538, 953846, 946154, 938462, 930769>>,
          <<0, 915385, 900000, 884615, 869231, 853846, 838462, 823077, 807692, 792308, 776923>>,
          <<0, 761538, 746154, 730769, 715385, 700000>>>>,
     poly_scales |->
        <<<<0, 0, 0, 0, 0, 0, 0, 0, 0, 0>>,
          <<0, 923077, 907692, 892308, 876923, 861538, 846154, 830769, 815385, 800000, 784615>>,
          <<0, 769231, 753846, 738462, 723077, 707692>>>>]

(* polynet, lines 1095-1109. *)
polynet_factories == {[family |-> "polynet", classes |-> c] : c \in ClassesGiven}

Factories ==
    seresnet_cifar_factories \cup pyramidnet_cifar_factories \cup airnext_factories
        \cup shufflenetv2b_factories \cup dla_factories \cup polynet_factories

(* The depths of the calls of get_seresnet_cifar and get_pyramidnet_cifar
   that no public factory makes. *)
DirectBlocks == {2, 8, 11, 14}

(* Calls of get_seresnet_cifar (lines 94-156) and get_pyramidnet_cifar
   (lines 97-166) with a depth of DirectBlocks. *)
cifar_direct ==
    {Call(f, b, bn, IF f = "pyramidnet_cifar" THEN 48 ELSE 0, "cifar10", 0, 0, c) :
        f \in {"seresnet_cifar", "pyramidnet_cifar"}, b \in DirectBlocks, bn \in BOOLEAN,
        c \in ClassesGiven}

(* The calls of a get_<family> that no public factory makes. *)
Direct == cifar_direct \cup dla_direct

(* The classes argument of a call: the keyword, or the default of the
   factory function (CIFAR and SVHN families) or of the constructor. *)
classes_of(m) ==
    IF m.classes # 0 THEN m.classes
    ELSE IF m.family \in {"seresnet_cifar", "pyramidnet_cifar"}
         THEN (IF m.dataset = "cifar100" THEN 100 ELSE 10)
         ELSE 1000

(* The in_size default of the constructor, the size of the image of _test. *)
in_size_of(m) ==
    IF m.family \in {"seresnet_cifar", "pyramidnet_cifar"} THEN 32
    ELSE IF m.family = "polynet" THEN 331 ELSE 224

(* A block added to self.features: the in_channels and out_channels it was
   constructed with (0: it has no such argument), its strides, and the
   pool_size of a pooling block (0 otherwise). *)
Block(block, in_, out, strides, pool_size) ==
    [block |-> block, in_channels |-> in_, out_channels |-> out, strides |-> strides,
     pool_size |-> pool_size]

(* No dataset is constructed. *)
McvIdle ==
    /\ lang = "en"
    /\ pc = "idle"
    /\ vocabulary = <<>>
    /\ vocabulary_dict = <<>>
    /\ exists = {}
    /\ total = 0
    /\ rows = <<>>
    /\ clip_file_name = ""
    /\ sentence = <<>>
    /\ text = <<>>
    /\ data = <<>>
    /\ failure = "none"
    /\ events = <<>>

(* A public factory or get_<family> itself is called; model_name is None,
   the empty string or a name. *)
InitNet ==
    /\ McvIdle
    /\ MetaIdle
    /\ model \in Factories \cup Direct
    /\ npc = "call"
    /\ args = NoArgs
    /\ locals = NoLocals
    /\ features = <<>>
    /\ output = <<>>
    /\ y = <<>>
    /\ pretrained \in BOOLEAN
    /\ model_name \in {None, <<"">>, <<model.family>>}
    /\ loaded = <<>>
    /\ error = ""

(* The factory's get_<family> and the constructor up to the stage loop: r is
   what get_<family> computes, init the initial block, in_size the size the
   constructor keeps (0 when it keeps none). *)
Begin(r, init, in_size) ==
    /\ npc = "call"
    /\ IF r.raised
       THEN /\ npc' = "raised"
            /\ error' = r.error
            /\ UNCHANGED <<args, locals, features>>
       ELSE /\ args' = [channels |-> r.channels, init_block_channels |-> r.init_block_channels,
                        final_block_channels |-> r.final_block_channels,
                        classes |-> classes_of(model)]
            /\ features' = <<init>>
            /\ locals' = [in_channels |-> r.init_block_channels, in_size |-> in_size,
                          i |-> 0, j |-> 0]
            /\ npc' = "stages"
            /\ UNCHANGED error
    /\ UNCHANGED <<call_vars, output, y, loaded, mcv_vars, meta_vars>>

(* One pass of the inner loop: the unit is added and in_channels becomes its
   out_channels. *)
AddUnit(unit, in_size) ==
    /\ features' = Append(features, unit)
    /\ locals' = [in_channels |-> unit.out_channels, in_size |-> in_size,
                  i |-> locals.i, j |-> locals.j + 1]
    /\ UNCHANGED <<call_vars, npc, args, output, y, loaded, error, mcv_vars, meta_vars>>

(* The list the loops of the constructor run over: channels, or
   two_way_scales for PolyNet (polynet.py line 1017). *)
stages == IF model.family = "polynet" THEN args.two_way_scales ELSE args.channels

(* The inner loop can take a unit of the family. *)
InStage(family) ==
    /\ npc = "stages"
    /\ model.family = family
    /\ locals.i < Len(stages)
    /\ locals.j < Len(stages[locals.i + 1])

out_channels == args.channels[locals.i + 1][locals.j + 1]

(* strides = 2 if (j == 0) and (i != 0) else 1 *)
strides == IF locals.j = 0 /\ locals.i # 0 THEN 2 ELSE 1

(* seresnet_cifar.py: get_seresnet_cifar, then CIFARSEResNet.__init__ lines
   58-63. *)
CIFARSEResNet_begin ==
    /\ model.family = "seresnet_cifar"
    /\ LET r == get_seresnet_cifar(classes_of(model), model.blocks, model.bottleneck)
       IN  Begin(r, Block("conv3x3_block", 3, r.init_block_channels, 1, 0), 0)

(* CIFARSEResNet.__init__ with line 76 left out: in_channels keeps the width
   of the initial block. *)
CIFARSEResNet_unit_stale ==
    /\ InStage("seresnet_cifar")
    /\ features' = Append(features, Block("SEResUnit", locals.in_channels, out_channels, strides, 0))
    /\ locals' = [locals EXCEPT !.j = locals.j + 1]
    /\ UNCHANGED <<call_vars, npc, args, output, y, loaded, error, mcv_vars, meta_vars>>

(* CIFARSEResNet.__init__, lines 67-76. *)
CIFARSEResNet_unit ==
    /\ InStage("seresnet_cifar")
    /\ AddUnit(Block("SEResUnit", locals.in_channels, out_channels, strides, 0), 0)

(* pyramidnet_cifar.py: get_pyramidnet_cifar, then CIFARPyramidNet.__init__
   lines 58-64. *)
CIFARPyramidNet_begin ==
    /\ model.family = "pyramidnet_cifar"
    /\ LET r == get_pyramidnet_cifar(classes_of(model), model.blocks, model.alpha,
                                     model.bottleneck)
       IN  Begin(r, Block("conv3x3_block", 3, r.init_block_channels, 1, 0), 0)

(* CIFARPyramidNet.__init__, lines 68-76. *)
CIFARPyramidNet_unit ==
    /\ InStage("pyramidnet_cifar")
    /\ AddUnit(Block("PyrUnit", locals.in_channels, out_channels, strides, 0), 0)

(* airnext.py: get_airnext, then AirNeXt.__init__ lines 201-207; the
   initial block divides the size by 4. *)
AirNeXt_begin ==
    /\ model.family = "airnext"
    /\ LET r == get_airnext(model.blocks, 64)
       IN  Begin(r, Block("AirInitBlock", 3, r.init_block_channels, 4, 0),
                 in_size_of(model) \div 4)

(* AirNeXt.__init__, lines 211-223. *)
AirNeXt_unit ==
    /\ InStage("airnext")
    /\ AddUnit(Block("AirNeXtUnit", locals.in_channels, out_channels, strides, 0),
               locals.in_size \div strides)

(* shufflenetv2b.py: get_shufflenetv2b, then ShuffleNetV2b.__init__ lines
   180-184; ShuffleInitBlock is a convolution and a pooling of strides 2. *)
ShuffleNetV2b_begin ==
    /\ model.family = "shufflenetv2b"
    /\ LET r == get_shufflenetv2b(model.width_scale)
       IN  Begin(r, Block("ShuffleInitBlock", 3, r.init_block_channels, 4, 0), 0)

(* ShuffleUnit.__init__ with y2_in_channels = in_channels2 in both modes. *)
ShuffleUnit_halved(in_channels, out_channels_, downsample) ==
    LET mid_channels == out_channels_ \div 2
        in_channels2 == in_channels \div 2
        y2_in_channels == in_channels2
        y2_out_channels == out_channels_ - y2_in_channels
    IN  [raised |-> in_channels % 2 # 0,
         downsample |-> downsample,
         conv1 |-> [in_channels |-> y2_in_channels, out_channels |-> mid_channels],
         dconv |-> [in_channels |-> mid_channels, out_channels |-> mid_channels],
         conv2 |-> [in_channels |-> mid_channels, out_channels |-> y2_out_channels],
         shortcut_dconv |-> [in_channels |-> in_channels, out_channels |-> in_channels],
         shortcut_conv |-> [in_channels |-> in_channels, out_channels |-> in_channels]]

(* ShuffleUnit.__init__, shufflenetv2b.py lines 34-85: the assertion of line
   48 and the widths the convolutions of the unit are constructed with
   (shortcut_dconv and shortcut_conv are used only when downsample holds). *)
ShuffleUnit(in_channels, out_channels_, downsample) ==
    LET mid_channels == out_channels_ \div 2
        in_channels2 == in_channels \div 2
        y2_in_channels == IF downsample THEN in_channels ELSE in_channels2
        y2_out_channels == out_channels_ - y2_in_channels
    IN  [raised |-> in_channels % 2 # 0,
         downsample |-> downsample,
         conv1 |-> [in_channels |-> y2_in_channels, out_channels |-> mid_channels],
         dconv |-> [in_channels |-> mid_channels, out_channels |-> mid_channels],
         conv2 |-> [in_channels |-> mid_channels, out_channels |-> y2_out_channels],
         shortcut_dconv |-> [in_channels |-> in_channels, out_channels |-> in_channels],
         shortcut_conv |-> [in_channels |-> in_channels, out_channels |-> in_channels]]

(* A convolution block applied to a tensor of x channels: it takes only the
   width it was constructed with. *)
conv(block, x) ==
    IF x = block.in_channels /\ x > 0 /\ block.out_channels > 0
    THEN [raised |-> FALSE, channels |-> block.out_channels]
    ELSE [raised |-> TRUE, channels |-> 0]

(* ShuffleUnit.hybrid_forward, lines 86-102, for an input of x channels and
   the defaults use_se = use_residual = False: the widths of y1, of y2 and
   of their concatenation.  F.split into 2 parts needs an even width. *)
ShuffleUnit_hybrid_forward(unit, x) ==
    LET shortcut == LET d == conv(unit.shortcut_dconv, x)
                    IN  IF d.raised THEN d ELSE conv(unit.shortcut_conv, d.channels)
        halves == IF x % 2 = 0 THEN [raised |-> FALSE, channels |-> x \div 2]
                  ELSE [raised |-> TRUE, channels |-> 0]
        y1 == IF unit.downsample THEN shortcut ELSE halves
        x2 == IF unit.downsample THEN x ELSE halves.channels
        y2 == LET a == conv(unit.conv1, x2)
                  b == IF a.raised THEN a ELSE conv(unit.dconv, a.channels)
              IN  IF b.raised THEN b ELSE conv(unit.conv2, b.channels)
    IN  IF y1.raised \/ y2.raised
        THEN [raised |-> TRUE, y1 |-> 0, y2 |-> 0, channels |-> 0]
        ELSE [raised |-> FALSE, y1 |-> y1.channels, y2 |-> y2.channels,
              channels |-> y1.channels + y2.channels]

(* ShuffleNetV2b.__init__, lines 188-197: the first unit of a stage
   downsamples; ShuffleUnit asserts an even in_channels (line 48). *)
ShuffleNetV2b_unit ==
    /\ InStage("shufflenetv2b")
    /\ LET downsample == locals.j = 0
       IN  IF ShuffleUnit(locals.in_channels, out_channels, downsample).raised
           THEN /\ npc' = "raised"
                /\ error' = "AssertionError"
                /\ UNCHANGED <<call_vars, args, locals, features, output, y, loaded, mcv_vars, meta_vars>>
           ELSE AddUnit(Block("ShuffleUnit", locals.in_channels, out_channels,
                              IF downsample THEN 2 ELSE 1, 0), 0)

(* dla.py: get_dla, then DLA.__init__ lines 391-398; DLAInitBlock halves
   the size. *)
DLA_begin ==
    /\ npc = "call"
    /\ model.family = "dla"
    /\ LET r == get_dla(model.levels, model.channels, model.res_body_class, model.residual_root)
       IN  /\ args' = [levels |-> r.levels, channels |-> r.channels,
                       init_block_channels |-> r.init_block_channels,
                       res_body_class |-> r.res_body_class,
                       residual_root |-> r.residual_root, classes |-> classes_of(model)]
           /\ features' = <<Block("DLAInitBlock", 3, r.init_block_channels, 2, 0)>>
           /\ locals' = [in_channels |-> r.init_block_channels, in_size |-> 0, i |-> 0, j |-> 0]
           /\ npc' = "stages"
    /\ UNCHANGED <<call_vars, output, y, loaded, error, mcv_vars, meta_vars>>

(* DLA.__init__, lines 399-413: one pass of the loop adds the tree of the
   stage and sets in_channels to its out_channels. *)
DLA_tree ==
    /\ npc = "stages"
    /\ model.family = "dla"
    /\ locals.i < Len(args.levels)
    /\ LET levels_i == args.levels[locals.i + 1]
           out == args.channels[locals.i + 1]
           first_tree == locals.i = 0
       IN  /\ features' = Append(features,
                                 [block |-> "DLATree", in_channels |-> locals.in_channels,
                                  out_channels |-> out, strides |-> 2, pool_size |-> 0,
                                  tree |-> DLATree(levels_i, locals.in_channels, out, 2,
                                                   args.residual_root, 0, first_tree, TRUE,
                                                   FALSE)])
           /\ locals' = [locals EXCEPT !.in_channels = out, !.i = locals.i + 1]
    /\ UNCHANGED <<call_vars, npc, args, output, y, loaded, error, mcv_vars, meta_vars>>

(* DLA.__init__, lines 414-423: the pooling, and self.output with a 1x1
   convolution to classes channels and Flatten. *)
DLA_finish ==
    /\ npc = "stages"
    /\ model.family = "dla"
    /\ locals.i = Len(args.levels)
    /\ features' = Append(features, Block("AvgPool2D", 0, 0, 1, 7))
    /\ output' = <<Block("conv1x1", locals.in_channels, args.classes, 1, 0),
                   Block("Flatten", 0, 0, 1, 0)>>
    /\ npc' = "constructed"
    /\ UNCHANGED <<call_vars, args, locals, y, loaded, error, mcv_vars, meta_vars>>

(* DLA.hybrid_forward, lines 425-428, for a batch of one image of x.channels
   channels and the size x.size: the blocks of self.features one after the
   other, each tree by DLATree.hybrid_forward, then the convolution of
   self.output, whose channels Flatten multiplies with the size. *)
RECURSIVE DLA_features(_, _)
DLA_features(k, x) ==
    IF k > Len(features) \/ x.raised THEN x
    ELSE LET b == features[k]
             t == DLATree_hybrid_forward(b.tree, <<>>, x.channels, <<>>)
         IN  DLA_features(k + 1,
                 IF b.block = "AvgPool2D"
                 THEN [x EXCEPT !.raised = x.size < b.pool_size,
                                !.size = x.size - b.pool_size + 1]
                 ELSE IF b.block = "DLATree"
                 THEN [raised |-> t.raised, channels |-> t.x, size |-> x.size \div b.strides]
                 ELSE [raised |-> x.channels # b.in_channels, channels |-> b.out_channels,
                       size |-> x.size \div b.strides])

DLA_hybrid_forward(x) ==
    LET f == DLA_features(1, [raised |-> FALSE, channels |-> x.channels, size |-> x.size])
        conv1x1 == output[1]
    IN  IF f.raised \/ f.channels # conv1x1.in_channels
        THEN [raised |-> TRUE, shape |-> <<>>]
        ELSE [raised |-> FALSE, shape |-> <<1, conv1x1.out_channels * f.size * f.size>>]

(* nn.Dense(units=classes, in_units=in_channels) *)
Dense(classes, in_units) == [block |-> "Dense", units |-> classes, in_units |-> in_units]

(* polynet.py: get_polynet, then PolyNet.__init__ lines 1009-1015; the
   constructor keeps in_channels = 3. *)
PolyNet_begin ==
    /\ npc = "call"
    /\ model.family = "polynet"
    /\ LET r == get_polynet
       IN  /\ args' = [two_way_scales |-> r.two_way_scales, poly_scales |-> r.poly_scales,
                       classes |-> classes_of(model)]
           /\ features' = <<Block("PolyInitBlock", 3, poly_channels[1], 8, 0)>>
           /\ locals' = [in_channels |-> 3, in_size |-> 0, i |-> 0, j |-> 0]
           /\ npc' = "stages"
    /\ UNCHANGED <<call_vars, output, y, loaded, error, mcv_vars, meta_vars>>

(* PolyNet.__init__, lines 1019-1029: the first unit of the second and of
   the third stage is the reduction unit, which takes no scale; every other
   unit is the normal unit of its stage, whose constructor may raise. *)
PolyNet_unit ==
    /\ InStage("polynet")
    /\ LET i == locals.i
           name == <<"PolyAUnit", "PolyBUnit", "PolyCUnit">>[i + 1]
           two_way_scale == args.two_way_scales[i + 1][locals.j + 1]
           poly_scale == args.poly_scales[i + 1][locals.j + 1]
           unit == PolyUnit(name, two_way_scale, poly_scale)
       IN  IF locals.j = 0 /\ i # 0
           THEN /\ features' = Append(features,
                                      Block(<<"ReductionAUnit", "ReductionBUnit">>[i],
                                            poly_channels[i], poly_channels[i + 1], 2, 0))
                /\ locals' = [locals EXCEPT !.j = locals.j + 1]
                /\ UNCHANGED <<npc, error>>
           ELSE IF unit.raised
           THEN /\ npc' = "raised"
                /\ error' = "AssertionError"
                /\ UNCHANGED <<features, locals>>
           ELSE /\ features' = Append(features,
                                      [block |-> name, in_channels |-> poly_channels[i + 1],
                                       out_channels |-> poly_channels[i + 1], strides |-> 1,
                                       pool_size |-> 0, two_way_scale |-> two_way_scale,
                                       poly_scale |-> poly_scale, unit |-> unit])
                /\ locals' = [locals EXCEPT !.j = locals.j + 1]
                /\ UNCHANGED <<npc, error>>
    /\ UNCHANGED <<call_vars, args, output, y, loaded, mcv_vars, meta_vars>>

(* PolyNet.__init__, lines 1032-1041: the pooling, and self.output with
   Flatten, Dropout and a Dense layer of 2048 inputs. *)
PolyNet_finish ==
    /\ npc = "stages"
    /\ model.family = "polynet"
    /\ locals.i = Len(args.two_way_scales)
    /\ features' = Append(features, Block("AvgPool2D", 0, 0, 1, 9))
    /\ output' = <<[block |-> "Flatten", units |-> 0, in_units |-> 0],
                   [block |-> "Dropout", units |-> 0, in_units |-> 0],
                   Dense(args.classes, 2048)>>
    /\ npc' = "constructed"
    /\ UNCHANGED <<call_vars, args, locals, y, loaded, error, mcv_vars, meta_vars>>

(* The size a 3x3 convolution or pooling of strides 2 and padding 0 leaves
   (Conv3x3Branch and MaxPoolBranch, lines 104-178). *)
reduced(size) == (size - 3) \div 2 + 1

(* PolyNet.hybrid_forward, lines 1043-1046, for a batch of one image: the
   blocks of self.features one after the other.  PolyInitBlock (lines
   939-971) reduces the size three times and takes 2 from it twice; a unit
   with a poly branch runs PolyResidual.hybrid_forward first (lines
   669-673). *)
RECURSIVE PolyNet_features(_, _)
PolyNet_features(k, x) ==
    IF k > Len(features) \/ x.raised THEN x
    ELSE LET b == features[k]
             poly == PolyResidual_hybrid_forward(b.unit.poly, x.channels, 0)
         IN  PolyNet_features(k + 1,
                 IF b.block = "AvgPool2D"
                 THEN [x EXCEPT !.raised = x.size < b.pool_size,
                                !.size = x.size - b.pool_size + 1]
                 ELSE IF x.channels # b.in_channels
                 THEN [x EXCEPT !.raised = TRUE]
                 ELSE IF b.block = "PolyInitBlock"
                 THEN [x EXCEPT !.channels = b.out_channels,
                                !.size = reduced(reduced(reduced(x.size) - 2) - 2)]
                 ELSE IF b.block \in {"ReductionAUnit", "ReductionBUnit"}
                 THEN [x EXCEPT !.channels = b.out_channels, !.size = reduced(x.size)]
                 ELSE IF b.unit.has_poly /\ poly.raised
                 THEN [x EXCEPT !.raised = TRUE, !.error = poly.error]
                 ELSE [x EXCEPT !.channels = b.out_channels])

PolyNet_hybrid_forward(x) ==
    LET f == PolyNet_features(1, [raised |-> FALSE, error |-> "MXNetError",
                                  channels |-> x.channels, size |-> x.size])
        dense == output[Len(output)]
    IN  IF f.raised \/ dense.in_units # f.channels * f.size * f.size
        THEN [raised |-> TRUE, error |-> f.error, shape |-> <<>>]
        ELSE [raised |-> FALSE, error |-> "", shape |-> <<1, dense.units>>]

(* self.features.add(stage), line 77 of seresnet_cifar.py, the same line
   of the other three and line 1030 of polynet.py: the inner loop is over,
   the next stage begins.  The
   units of a stage stand in features one after the other. *)
EndStage ==
    /\ npc = "stages"
    /\ model.family # "dla"
    /\ locals.i < Len(stages)
    /\ locals.j = Len(stages[locals.i + 1])
    /\ locals' = [locals EXCEPT !.i = locals.i + 1, !.j = 0]
    /\ UNCHANGED <<call_vars, npc, args, features, output, y, loaded, error, mcv_vars, meta_vars>>

(* The blocks a constructor adds after the stages, and the width it leaves
   in in_channels: seresnet_cifar.py lines 78-80, pyramidnet_cifar.py lines
   78-83, airnext.py lines 225-227, shufflenetv2b.py lines 199-205. *)
final_blocks(family) ==
    CASE family = "seresnet_cifar" -> <<Block("AvgPool2D", 0, 0, 1, 8)>>
      [] family = "pyramidnet_cifar" ->
            <<Block("PreResActivation", locals.in_channels, locals.in_channels, 1, 0),
              Block("AvgPool2D", 0, 0, 1, 8)>>
      [] family = "airnext" -> <<Block("AvgPool2D", 0, 0, 1, 7)>>
      [] family = "shufflenetv2b" ->
            <<Block("conv1x1_block", locals.in_channels, args.final_block_channels, 1, 0),
              Block("AvgPool2D", 0, 0, 1, 7)>>

(* The end of a constructor: the final blocks, then self.output with
   Flatten and Dense (seresnet_cifar.py lines 78-86 and the same lines of the
   other three). *)
Finish ==
    /\ npc = "stages"
    /\ model.family \notin {"dla", "polynet"}
    /\ locals.i = Len(args.channels)
    /\ features' = features \o final_blocks(model.family)
    /\ locals' = [locals EXCEPT !.in_channels =
                      IF model.family = "shufflenetv2b" THEN args.final_block_channels
                      ELSE locals.in_channels]
    /\ output' = <<[block |-> "Flatten", units |-> 0, in_units |-> 0],
                   Dense(args.classes, locals'.in_channels)>>
    /\ npc' = "constructed"
    /\ UNCHANGED <<call_vars, args, y, loaded, error, mcv_vars, meta_vars>>

(* The statement "if pretrained:" without the check of model_name (line 147
   of seresnet_cifar.py). *)
LoadPretrained_unchecked ==
    /\ npc = "constructed"
    /\ IF ~pretrained
       THEN npc' = "built" /\ UNCHANGED <<loaded, error>>
       ELSE \E found \in BOOLEAN :
                /\ loaded' = loaded \o
                       (IF found
                        THEN <<[op |-> "get_model_file", model_name |-> model_name],
                               [op |-> "load_parameters", model_name |-> model_name]>>
                        ELSE <<[op |-> "get_model_file", model_name |-> model_name]>>)
                /\ npc' = (IF found THEN "built" ELSE "raised")
                /\ error' = (IF found THEN error ELSE "ValueError")
    /\ UNCHANGED <<model, pretrained, model_name, args, locals, features, output, y, mcv_vars, meta_vars>>

(* The statement "if pretrained:" that ends every get_<family>
   (seresnet_cifar.py lines 146-154, and the same lines of the others): with
   a model_name that is None or empty ValueError is raised; otherwise
   get_model_file of the model store is called and, when it returns a file,
   net.load_parameters. *)
LoadPretrained ==
    /\ npc = "constructed"
    /\ IF ~pretrained
       THEN npc' = "built" /\ UNCHANGED <<loaded, error>>
       ELSE IF model_name = None \/ model_name = <<"">>
       THEN npc' = "raised" /\ error' = "ValueError" /\ UNCHANGED loaded
       ELSE \E found \in BOOLEAN :
                IF found
                THEN /\ loaded' = loaded \o <<[op |-> "get_model_file", model_name |-> model_name],
                                             [op |-> "load_parameters", model_name |-> model_name]>>
                     /\ npc' = "built"
                     /\ UNCHANGED error
                ELSE /\ loaded' = Append(loaded, [op |-> "get_model_file",
                                                  model_name |-> model_name])
                     /\ npc' = "raised"
                     /\ error' = "ValueError"
    /\ UNCHANGED <<model, pretrained, model_name, args, locals, features, output, y, mcv_vars, meta_vars>>

(* The width of x after the first k blocks of self.features. *)
width(x, k) ==
    LET P == {m \in 1..k : features[m].out_channels # 0}
    IN  IF P = {} THEN x.channels
        ELSE features[CHOOSE m \in P : \A n \in P : n <= m].out_channels

(* net(x) for a batch of one image x: every block with an in_channels
   argument takes only inputs of that width, a block of strides s divides
   the size by s, a pooling of size p and strides 1 takes p - 1 from it, and
   Dense takes only in_units values per image; the result is the shape of
   the output. *)
hybrid_forward(x) ==
    LET n == Len(features)
        accepted == \A k \in 1..n :
                        \/ features[k].in_channels = 0
                        \/ k > 1 /\ features[k].in_channels = features[k - 1].out_channels
                        \/ features[k].in_channels = width(x, k - 1)
        twos == Cardinality({k \in 1..n : features[k].strides = 2})
                    + 2 * Cardinality({k \in 1..n : features[k].strides = 4})
        pooled == {k \in 1..n : features[k].pool_size # 0}
        size == (x.size \div (2 ^ twos)) + Cardinality(pooled)
                    - (IF pooled = {} THEN 0
                       ELSE features[CHOOSE k \in pooled : TRUE].pool_size)
        dense == output[Len(output)]
    IN  IF accepted /\ size >= 1 /\ dense.in_units = width(x, n) * size * size
        THEN [raised |-> FALSE, shape |-> <<1, dense.units>>]
        ELSE [raised |-> TRUE, shape |-> <<>>]

(* _test: x = mx.nd.zeros((1, 3, in_size, in_size)); y = net(x). *)
Forward ==
    /\ npc = "built"
    /\ LET x == [channels |-> 3, size |-> in_size_of(model)]
           r == CASE model.family = "dla" -> DLA_hybrid_forward(x)
                  [] model.family = "polynet" -> PolyNet_hybrid_forward(x)
                  [] OTHER -> hybrid_forward(x)
       IN  IF r.raised
           THEN /\ npc' = "raised"
                /\ error' = (IF model.family = "polynet" THEN r.error ELSE "MXNetError")
                /\ UNCHANGED y
           ELSE npc' = "tested" /\ y' = r.shape /\ UNCHANGED error
    /\ UNCHANGED <<call_vars, args, locals, features, output, loaded, mcv_vars, meta_vars>>

NextNet ==
    \/ CIFARSEResNet_begin
    \/ CIFARSEResNet_unit
    \/ CIFARPyramidNet_begin
    \/ CIFARPyramidNet_unit
    \/ AirNeXt_begin
    \/ AirNeXt_unit
    \/ ShuffleNetV2b_begin
    \/ ShuffleNetV2b_unit
    \/ DLA_begin
    \/ DLA_tree
    \/ DLA_finish
    \/ PolyNet_begin
    \/ PolyNet_unit
    \/ PolyNet_finish
    \/ EndStage
    \/ Finish
    \/ LoadPretrained
    \/ Forward

SpecNet == InitNet /\ [][NextNet]_vars

(* ---------------------------------------------------------------- *)
(* McvMetaInfo                                                       *)
(* ---------------------------------------------------------------- *)

(* How many calls are made on one McvMetaInfo. *)
MaxCalls == 3

(* self.num_classes = None (line 268); len(vocabulary) + 1 is at least 1. *)
NoClasses == 0

(* The --lang and --subset arguments of the script (lines 294-303), which
   are not checked against the supported languages. *)
ArgsLangs == {"en", "fr", "ru34", "xx"}

ArgsSubsets == {"dev", "test"}

(* The datasets update_from_dataset is called with: _data is a McvDataset
   constructed for a supported language (lines 42-43). *)
MetaDatasets ==
    {[_data |-> [lang |-> l, vocabulary |-> get_vocabulary_for_lang(l).value]] :
        l \in {"en", "fr", "ru34"}}

(* McvMetaInfo.__init__, lines 257-277. *)
InitMeta ==
    /\ McvIdle
    /\ NetIdle
    /\ metainfo = [label |-> "MCV",
                   lang |-> "en",
                   dataset_class_extra_kwargs |-> [lang |-> "en", subset |-> "dev"],
                   num_classes |-> NoClasses,
                   val_metric_extra_kwargs |-> <<[vocabulary |-> None]>>,
                   test_metric_extra_kwargs |-> <<[vocabulary |-> None]>>]
    /\ calls = <<>>

(* McvMetaInfo.update with line 316 left out. *)
update_lang_only(a) ==
    /\ Len(calls) < MaxCalls
    /\ metainfo' = [metainfo EXCEPT !.lang = a.lang,
                                    !.dataset_class_extra_kwargs.subset = a.subset]
    /\ calls' = Append(calls, [op |-> "update", lang |-> a.lang, vocabulary |-> None])
    /\ UNCHANGED <<mcv_vars, net_vars>>

(* McvMetaInfo.update, lines 304-317; update of the base class sets none of
   the attributes kept here. *)
update(a) ==
    /\ Len(calls) < MaxCalls
    /\ metainfo' = [metainfo EXCEPT !.lang = a.lang,
                                    !.dataset_class_extra_kwargs.lang = a.lang,
                                    !.dataset_class_extra_kwargs.subset = a.subset]
    /\ calls' = Append(calls, [op |-> "update", lang |-> a.lang, vocabulary |-> None])
    /\ UNCHANGED <<mcv_vars, net_vars>>

(* McvMetaInfo.update_from_dataset, lines 319-332. *)
update_from_dataset(dataset) ==
    /\ Len(calls) < MaxCalls
    /\ LET vocabulary_ == dataset._data.vocabulary
       IN  /\ metainfo' = [metainfo EXCEPT
                              !.num_classes = Len(vocabulary_) + 1,
                              !.val_metric_extra_kwargs[1].vocabulary = vocabulary_,
                              !.test_metric_extra_kwargs[1].vocabulary = vocabulary_]
           /\ calls' = Append(calls, [op |-> "update_from_dataset",
                                      lang |-> dataset._data.lang,
                                      vocabulary |-> vocabulary_])
    /\ UNCHANGED <<mcv_vars, net_vars>>

NextMeta ==
    \/ \E l \in ArgsLangs, s \in ArgsSubsets : update([lang |-> l, subset |-> s])
    \/ \E dataset \in MetaDatasets : update_from_dataset(dataset)

SpecMeta == InitMeta /\ [][NextMeta]_vars

(* ---------------------------------------------------------------- *)
(* Properties                                                        *)
(* ---------------------------------------------------------------- *)

(* The label of the pair appended last. *)
label == data[Len(data)][2]

InVocabulary(t) == \A i \in 1..Len(t) : t[i] \in Range(vocabulary)

(* The characters the re.sub patterns of a language match. *)
RuleCharacters(lang_) ==
    UNION {IF rules(lang_)[k].kind = "literal"
           THEN Range(rules(lang_)[k].pat)
           ELSE rules(lang_)[k].pat : k \in 1..Len(rules(lang_))}

(* The characters the rules of a language delete or turn into a space. *)
Punctuation(lang_) ==
    UNION {IF rules(lang_)[k].kind = "chars" /\ rules(lang_)[k].repl \in {<<>>, <<" ">>}
           THEN rules(lang_)[k].pat
           ELSE {} : k \in 1..Len(rules(lang_))}

(* A position of a character in a list, 0-based. *)
Position(v, c) == CHOOSE i \in 0..(Len(v) - 1) : v[i + 1] = c

(* C1: once line 196 has run for a sentence, either the normalized text has
   a character outside the vocabulary, the constructor has raised KeyError
   and no pair was appended, or every character is in the vocabulary, the
   pair was appended and every index of its label is in
   0..len(vocabulary)-1. *)
C1_UnknownCharacterIsFatal ==
    pc \in {"wav", "raised"} =>
        IF InVocabulary(text)
        THEN /\ pc = "wav"
             /\ failure = "none"
             /\ Len(data) = 1
             /\ \A i \in 1..Len(label) : label[i] \in 0..(Len(vocabulary) - 1)
        ELSE /\ pc = "raised"
             /\ failure = "KeyError"
             /\ data = <<>>

(* A sentence with a known and an unknown character was refused. *)
C1_Witness ==
    /\ pc = "raised"
    /\ failure = "KeyError"
    /\ \E i, j \in 1..Len(text) : text[i] \in Range(vocabulary) /\ text[j] \notin Range(vocabulary)

(* C2: for a language code outside the nine supported ones the constructor
   does nothing but raise at line 42: no vocabulary lookup, no existence
   check, no read of the metadata, no normalization, no pair; and
   get_vocabulary_for_lang raises for that code instead of returning. *)
C2_UnsupportedLanguageRejectedFirst ==
    lang \notin SupportedLangs =>
        /\ pc \in {"assert_lang", "raised"}
        /\ pc = "raised" => failure = "AssertionError"
        /\ events = <<>>
        /\ vocabulary = <<>>
        /\ vocabulary_dict = <<>>
        /\ text = <<>>
        /\ data = <<>>
        /\ get_vocabulary_for_lang(lang).raised

(* The constructor has raised for an unsupported code. *)
C2_Witness == lang \notin SupportedLangs /\ pc = "raised" /\ failure = "AssertionError"

(* C3: a sentence made only of vocabulary characters and of characters the
   rules of its language match normalizes to a text of vocabulary characters
   and is encoded without KeyError. *)
C3_RuleCharactersEncode ==
    (\A i \in 1..Len(sentence) : sentence[i] \in Range(vocabulary) \cup RuleCharacters(lang)) =>
        /\ failure = "none"
        /\ pc = "encode" => InVocabulary(text)

(* A sentence with a character that only a rule knows was encoded. *)
C3_Witness ==
    /\ pc = "wav"
    /\ Len(sentence) = MaxLen
    /\ \A i \in 1..Len(sentence) : sentence[i] \in Range(vocabulary) \cup RuleCharacters(lang)
    /\ \E i \in 1..Len(sentence) : sentence[i] \notin Range(vocabulary) \cup Whitespace
    /\ text # <<>>

(* C4: reading each index of an encoded label back through the vocabulary
   list gives the normalized text. *)
C4_RoundTrip ==
    pc = "wav" =>
        /\ \A i \in 1..Len(label) : label[i] \in 0..(Len(vocabulary) - 1)
        /\ [i \in 1..Len(label) |-> vocabulary[label[i] + 1]] = text

(* A text of two different characters was encoded. *)
C4_Witness == pc = "wav" /\ Len(text) >= 2 /\ text[1] # text[2]

(* C5: the label has one index per character of the normalized text, in
   order: the k-th index is the position of the k-th character in the
   vocabulary. *)
C5_OneIndexPerCharacter ==
    pc = "wav" =>
        /\ Len(label) = Len(text)
        /\ \A k \in 1..Len(text) : label[k] = Position(vocabulary, text[k])

(* A label of the longest drawn length with two different indices. *)
C5_Witness == pc = "wav" /\ Len(label) >= MaxLen /\ label[1] # label[Len(label)]

(* C6: normalizing a normalized text again changes nothing, for sentences
   of vocabulary characters, whitespace and the punctuation the rules of the
   language handle. *)
C6_Idempotent ==
    (/\ pc # "text"
     /\ \A i \in 1..Len(sentence) :
            sentence[i] \in Range(vocabulary) \cup Whitespace \cup Punctuation(lang)) =>
        normalize(lang, vocabulary, text) = text

(* C7: for en, "Hello, World!" normalizes to "hello world" and is encoded
   as 8,5,12,12,15,0,23,15,18,12,4. *)
C7_HelloWorld ==
    lang = "en" /\ sentence = HelloWorld =>
        /\ failure = "none"
        /\ pc # "text" => text = <<"h", "e", "l", "l", "o", " ", "w", "o", "r", "l", "d">>
        /\ pc = "wav" => label = <<8, 5, 12, 12, 15, 0, 23, 15, 18, 12, 4>>

(* "Hello, World!" was encoded. *)
C7_Witness == lang = "en" /\ sentence = HelloWorld /\ pc = "wav" /\ Len(data) = 1

(* C8: the vocabulary loaded for ru has 34 symbols, the one for ru34 has
   33. *)
C8_RussianVocabularyLengths ==
    pc \notin {"assert_lang", "get_vocabulary"} =>
        /\ lang = "ru" => Len(vocabulary) = 34
        /\ lang = "ru34" => Len(vocabulary) = 33

(* The vocabulary of ru34 was loaded. *)
C8_Witness == lang = "ru34" /\ pc = "root_dir" /\ vocabulary # <<>>

(* C9: the vocabulary loaded for a supported language has no repeated
   character and has the space, and the table built from it maps each
   character to its own 0-based position, so the ids are 0..len-1, each the
   id of one character. *)
C9_VocabularyIsIndexed ==
    lang \in SupportedLangs /\ pc \notin {"assert_lang", "get_vocabulary"} =>
        /\ \A i, j \in 1..Len(vocabulary) : i # j => vocabulary[i] # vocabulary[j]
        /\ " " \in Range(vocabulary)
        /\ DOMAIN vocabulary_dict = Range(vocabulary)
        /\ \A i \in 1..Len(vocabulary) : vocabulary_dict[vocabulary[i]] = i - 1
        /\ {vocabulary_dict[c] : c \in DOMAIN vocabulary_dict} = 0..(Len(vocabulary) - 1)

(* The table of pl, whose accented letters stand between the ASCII ones, was
   built. *)
C9_Witness == lang = "pl" /\ pc = "root_dir" /\ DOMAIN vocabulary_dict # {}

(* C10: neither the first nor the last index of a non-empty label is the
   index of the space. *)
C10_NoOuterSpace ==
    pc = "wav" /\ Len(label) > 0 =>
        /\ label[1] # vocabulary_dict[" "]
        /\ label[Len(label)] # vocabulary_dict[" "]

(* The normalized text has no two spaces in a row and no whitespace
   character but the space. *)
SingleSpaced(t) ==
    /\ \A i \in 1..Len(t) : t[i] \in Whitespace => t[i] = " "
    /\ \A i \in 1..(Len(t) - 1) : ~(t[i] = " " /\ t[i + 1] = " ")

(* C11: for every supported language the normalized text has no two
   consecutive spaces and no whitespace character other than the single
   space. *)
C11_SingleSpaced == pc \in {"encode", "wav"} => SingleSpaced(text)

(* C12: a sentence made of vocabulary characters and at least one '&' is
   normalized and encoded without an error, in every supported language,
   and its normalized text has no '&'. *)
C12_AmpersandBecomesAnd ==
    /\ pc \in {"wav", "raised"}
    /\ "&" \in Range(sentence)
    /\ \A i \in 1..Len(sentence) : sentence[i] \in Range(vocabulary) \cup {"&"}
    => /\ pc = "wav"
       /\ failure = "none"
       /\ "&" \notin Range(text)

(* How many times a character occurs in a text. *)
Count(t, c) == Cardinality({i \in 1..Len(t) : t[i] = c})

(* The position in a branch of the first statement that satisfies P. *)
RuleIndex(rs, P(_)) == CHOOSE k \in 1..Len(rs) : P(rs[k]) /\ \A j \in 1..(k - 1) : ~P(rs[j])

IsFallback(r) == r.kind = "unidecode"

(* The text a branch hands to its fallback statement. *)
BeforeFallback(lang_, v, s) ==
    cascade(SubSeq(rules(lang_), 1, RuleIndex(rules(lang_), IsFallback) - 1), v, lower(s))

(* C13: for pl the statements q->k, x->ks and v->w stand in that order
   before the fallback, the text handed to the fallback has no q, x or v,
   and the normalized text has no q, x or v but a k for every q and x, an s
   for every x and a w for every v of the lower-cased sentence. *)
C13_PolishLettersBeforeFallback ==
    lang = "pl" /\ pc \in {"encode", "wav", "raised"} =>
        LET rs == rules("pl")
            IsQ(r) == r.kind = "chars" /\ r.pat = {"q"} /\ r.repl = <<"k">>
            IsX(r) == r.kind = "chars" /\ r.pat = {"x"} /\ r.repl = <<"k", "s">>
            IsV(r) == r.kind = "chars" /\ r.pat = {"v"} /\ r.repl = <<"w">>
            s == lower(sentence)
        IN  /\ \E q, x, v, f \in 1..Len(rs) :
                /\ IsQ(rs[q]) /\ IsX(rs[x]) /\ IsV(rs[v]) /\ IsFallback(rs[f])
                /\ q < x /\ x < v /\ v < f
                /\ \A j \in 1..(f - 1) : ~IsFallback(rs[j])
            /\ Range(BeforeFallback("pl", vocabulary, sentence)) \cap {"q", "x", "v"} = {}
            /\ Range(text) \cap {"q", "x", "v"} = {}
            /\ Count(text, "k") = Count(s, "k") + Count(s, "q") + Count(s, "x")
            /\ Count(text, "s") = Count(s, "s") + Count(s, "x")
            /\ Count(text, "w") = Count(s, "w") + Count(s, "v")

(* A Polish sentence with q, x and v was normalized and encoded. *)
C13_Witness ==
    /\ lang = "pl" /\ pc = "wav"
    /\ sentence = <<"q", "x", "v">>
    /\ text = <<"k", "k", "s", "w">>

(* The Latin letters of the table of lines 179-189, in its order. *)
LatinLookalikes == <<"m", "o", "z", "i", "l", "a", "f", "r", "e", "x", "h">>

(* C14: in the branch of ru and ru34 the three special hyphen patterns come
   first, then the statement that turns a hyphen into a space, then the one
   that deletes punctuation, then the Latin table m,o,z,i,l,a,f,r,e,x,h in
   that order, then the whitespace collapse; for ru34 and only for it the
   statement merging U+0451 into U+0435 follows as the last one; and the
   normalized text has none of the eleven Latin letters and no hyphen. *)
C14_RussianOrder ==
    lang \in {"ru", "ru34"} /\ pc \in {"encode", "wav", "raised"} =>
        LET rs == rules(lang)
            n == Len(LatinLookalikes)
            IsMerge(r) == r.kind = "chars" /\ r.pat = {"U+0451"} /\ r.repl = <<"U+0435">>
        IN  /\ Len(rs) = 6 + n + (IF lang = "ru34" THEN 1 ELSE 0)
            /\ \A k \in 1..3 : rs[k].kind = "literal" /\ "-" \in Range(rs[k].pat)
            /\ rs[4].kind = "chars" /\ "-" \in rs[4].pat /\ rs[4].repl = <<" ">>
            /\ rs[5].kind = "chars" /\ {",", "!", "?"} \subseteq rs[5].pat /\ rs[5].repl = <<>>
            /\ \A k \in 1..n :
                   /\ rs[5 + k].kind = "chars"
                   /\ rs[5 + k].pat = {LatinLookalikes[k]}
                   /\ Range(rs[5 + k].repl) \subseteq Range(vocabulary)
            /\ rs[6 + n].kind = "plus"
            /\ (\E k \in 1..Len(rs) : IsMerge(rs[k])) <=> lang = "ru34"
            /\ lang = "ru34" => IsMerge(rs[Len(rs)])
            /\ Range(text) \cap (Range(LatinLookalikes) \cup {"-"}) = {}
            /\ lang = "ru34" => "U+0451" \notin Range(text)
            /\ lang = "ru" => Count(text, "U+0451") = Count(lower(sentence), "U+0451")

(* A ru34 sentence with a Latin letter, a hyphen and U+0451 was normalized
   and encoded. *)
C14_Witness ==
    /\ lang = "ru34" /\ pc = "wav"
    /\ sentence = <<"a", "-", "U+0451">>
    /\ text = <<"U+0430", " ", "U+0435">>

(* Every vocabulary member of b stands unchanged in a, in the order of b, and
   between two of them a has whatever the others of b were replaced by. *)
RECURSIVE InPlace(_, _, _)
InPlace(v, b, a) ==
    IF b = <<>> THEN a = <<>>
    ELSE IF Head(b) \in Range(v)
         THEN a # <<>> /\ Head(a) = Head(b) /\ InPlace(v, Tail(b), Tail(a))
         ELSE \E n \in 0..Len(a) : InPlace(v, Tail(b), SubSeq(a, n + 1, Len(a)))

(* C15: the branch of a language has a fallback statement exactly when the
   language is it, es, ca or pl, and it has one only; that statement leaves
   every vocabulary member of its input unchanged and in place and replaces
   only the other characters, each by its own transliteration. *)
C15_FallbackOnlyOutsideVocabulary ==
    lang \in SupportedLangs /\ pc \in {"encode", "wav", "raised"} =>
        LET rs == rules(lang)
            F == {k \in 1..Len(rs) : IsFallback(rs[k])}
        IN  /\ F # {} <=> lang \in {"it", "es", "ca", "pl"}
            /\ Cardinality(F) <= 1
            /\ F # {} =>
                   LET b == BeforeFallback(lang, vocabulary, sentence)
                       a == apply_rule(rs[RuleIndex(rs, IsFallback)], vocabulary, b)
                   IN  /\ InPlace(vocabulary, b, a)
                       /\ Len(a) = Len(b) + Count(b, "U+20AC") * 2
                       /\ \A i \in 1..Len(b) :
                              b[i] \in Range(vocabulary) \/ b[i] \in {"U+00E3", "U+00A0", "U+20AC"}
                                  \/ \E j \in 1..Len(a) : a[j] = b[i]

(* An Italian sentence with an accented vocabulary letter between two
   characters the fallback replaces was normalized and encoded. *)
C15_Witness ==
    /\ lang = "it" /\ pc = "wav"
    /\ sentence = <<"U+00E3", "it#28", "U+00E3">>
    /\ text = <<"a", "it#28", "a">>

(* The events of one operation. *)
EventsOf(op) == {n \in 1..Len(events) : events[n].op = op}

(* The number of rows whose mp3 file was looked for. *)
ClipChecks ==
    Cardinality({n \in EventsOf("exists") :
                    \E name \in ClipNames : events[n].path = mp3_file_path(lang, name)})

(* The constructor has failed on the assert of line 77. *)
MissingClip ==
    /\ pc = "raised"
    /\ rows # <<>>
    /\ events[Len(events)] = Event("exists", mp3_file_path(lang, clip_file_name))

(* C16 as stated: when the constructor fails on a missing clip, no utterance
   has been encoded and no wav file has been written. *)
C16_NothingDoneBeforeMissingClip ==
    MissingClip => data = <<>> /\ EventsOf("encode") = {} /\ EventsOf("write") = {}

(* C16 amended: the mp3 file of a row is looked for before the row's
   sentence is normalized or encoded, a row is processed only when its file
   exists, and when the file of a row is missing the constructor fails with
   an AssertionError without having normalized or encoded that row or any
   later one and without having written its wav file (the rows before it
   were normalized, and encoded, each after its own check). *)
C16_ClipCheckedBeforeEachRow ==
    /\ \A n \in EventsOf("normalize") :
           /\ n > 1
           /\ events[n - 1].op = "exists"
           /\ events[n - 1].path \in {mp3_file_path(lang, name) : name \in ClipNames}
           /\ events[n - 1].path \in exists
    /\ \A n \in EventsOf("encode") : n > 1 /\ events[n - 1].op = "normalize"
    /\ pc \in {"text", "encode", "wav"} => mp3_file_path(lang, clip_file_name) \in exists
    /\ Cardinality(EventsOf("normalize")) <= ClipChecks
    /\ MissingClip =>
           /\ failure = "AssertionError"
           /\ mp3_file_path(lang, clip_file_name) \notin exists
           /\ Cardinality(EventsOf("normalize")) = Len(rows) - 1
           /\ Cardinality(EventsOf("encode")) = Len(rows) - 1
           /\ Len(data) = Len(rows) - 1
           /\ ClipChecks = Len(rows)
           /\ \A n \in EventsOf("write") :
                  events[n].path # wav_file_path(lang, clip_file_name)

(* The second clip is missing: the constructor failed after the first row
   was encoded and its wav file written. *)
C16_Witness ==
    /\ MissingClip
    /\ Len(rows) = 2
    /\ Len(data) = 1
    /\ EventsOf("write") # {}

(* The label line 196 builds for a sentence in a language, None when it
   raises. *)
label_of(lang_, s) ==
    LET v == get_vocabulary_for_lang(lang_).value
        r == encode(make_vocabulary_dict(v), normalize(lang_, v, s))
    IN  IF r.raised THEN None ELSE r.value

(* C17: the label of every pair appended is the label of its row's sentence
   in the language, whatever the rows before it were, whether or not wav
   files exist and whatever was resampled; so two rows with the same
   sentence have the same label. *)
C17_LabelDependsOnSentenceOnly ==
    lang \in SupportedLangs =>
        /\ Len(data) <= Len(rows)
        /\ \A i \in 1..Len(data) : data[i][2] = label_of(lang, rows[i].sentence)
        /\ \A i, j \in 1..Len(data) :
               rows[i].sentence = rows[j].sentence => data[i][2] = data[j][2]

(* Two rows with the same sentence and different clips were encoded, and a
   wav file was written in between. *)
C17_Witness ==
    /\ Len(data) = 2
    /\ rows[1].sentence = rows[2].sentence
    /\ rows[1].path # rows[2].path
    /\ \E n \in EventsOf("write") : n < Len(events) - 2
    /\ data[1][2] = data[2][2]
    /\ data[1][2] # <<>>

(* C18: for en the normalized text has no apostrophe with a space right
   before it or right after it. *)
C18_NoApostropheNextToSpace ==
    lang = "en" /\ pc \in {"encode", "wav", "raised"} =>
        \A i \in 1..(Len(text) - 1) :
            /\ ~(text[i] = " " /\ text[i + 1] = "'")
            /\ ~(text[i] = "'" /\ text[i + 1] = " ")

(* C19: when the constructor has returned, data has one pair per row of the
   table, in row order: the i-th pair is the wav path of the i-th row's file
   name in the clips directory and the label of the i-th row's sentence,
   whether the wav file existed before or not. *)
C19_OnePairPerRow ==
    pc = "done" =>
        /\ Len(rows) = total
        /\ Len(data) = total
        /\ \A i \in 1..total :
               /\ data[i][1] = clips_dir_path(lang) \o <<wav_file_name(rows[i].path)>>
               /\ data[i][2] = label_of(lang, rows[i].sentence)

(* The constructor returned after two rows, the first with a wav file that
   existed (nothing was loaded for it), the second with one that did not. *)
C19_Witness ==
    /\ pc = "done"
    /\ Len(data) = 2
    /\ rows[1].path = "c1.mp3" /\ rows[2].path = "c2.mp3"
    /\ data[1][1] = <<"root", lang, "clips", "c1.wav">>
    /\ data[2][1] = <<"root", lang, "clips", "c2.wav">>
    /\ \A n \in EventsOf("load") : events[n].path # mp3_file_path(lang, "c1.mp3")
    /\ \E n \in EventsOf("load") : events[n].path = mp3_file_path(lang, "c2.mp3")

Units == {"SEResUnit", "PyrUnit", "AirNeXtUnit", "ShuffleUnit"}

(* How many units the channels argument asks for. *)
RECURSIVE UnitCount(_)
UnitCount(channels) == IF channels = <<>> THEN 0 ELSE Len(Head(channels)) + UnitCount(Tail(channels))

(* The public factories of seresnet_cifar.py, pyramidnet_cifar.py, airnext.py
   and shufflenetv2b.py. *)
StagedFactories ==
    seresnet_cifar_factories \cup pyramidnet_cifar_factories \cup airnext_factories
        \cup shufflenetv2b_factories

(* C20: in a network one of these public factories has built, the units
   follow the initial block, one per entry of channels; the first unit has
   the in_channels init_block_channels, which is the width of the initial
   block, every later unit has the out_channels of the unit before it as its
   in_channels, the Dense layer has the width of the last feature block as
   in_units and classes as units, and the output for one image has the shape
   (1, classes). *)
C20_ChannelsChain ==
    model \in StagedFactories /\ npc \in {"built", "tested"} =>
        LET n == UnitCount(args.channels)
            dense == output[Len(output)]
        IN  /\ Len(features) > n + 1
            /\ features[1].block \notin Units
            /\ features[1].out_channels = args.init_block_channels
            /\ \A k \in 2..(n + 1) : features[k].block \in Units
            /\ \A k \in (n + 2)..Len(features) : features[k].block \notin Units
            /\ features[2].in_channels = args.init_block_channels
            /\ \A k \in 3..(n + 1) : features[k].in_channels = features[k - 1].out_channels
            /\ dense.block = "Dense"
            /\ dense.in_units = width([channels |-> 3, size |-> in_size_of(model)], Len(features))
            /\ dense.units = classes_of(model)
            /\ npc = "tested" => y = <<1, classes_of(model)>>

(* The network of shufflenetv2b_w2 with classes=100 was built and run on
   one image. *)
C20_Witness ==
    /\ npc = "tested"
    /\ model.family = "shufflenetv2b"
    /\ model.width_scale = 61
    /\ model.classes = 100
    /\ features[2].in_channels = 24
    /\ features[17].out_channels = 976
    /\ output[2].in_units = 2153
    /\ y = <<1, 100>>

(* The families of the CIFAR and SVHN factories. *)
CifarFamilies == {"seresnet_cifar", "pyramidnet_cifar"}

(* The assertions of get_seresnet_cifar and get_pyramidnet_cifar hold for
   the call. *)
Accepted ==
    /\ classes_of(model) \in {10, 100}
    /\ (model.blocks - 2) % (IF model.bottleneck THEN 9 ELSE 6) = 0

(* C21: get_seresnet_cifar and get_pyramidnet_cifar raise AssertionError
   before anything is built unless classes is 10 or 100 and blocks - 2 is
   divisible by 9 (bottleneck) or by 6; a call they accept reaches the
   constructor with 3 stages of (blocks - 2) / 9 or (blocks - 2) / 6 units
   each, which the constructor builds; and no public factory called without
   a classes keyword raises before its network is constructed. *)
C21_AcceptedDepthsAreBuilt ==
    (model.family \in CifarFamilies /\ npc # "call") =>
        LET n == (model.blocks - 2) \div (IF model.bottleneck THEN 9 ELSE 6)
        IN  /\ ~Accepted => npc = "raised" /\ error = "AssertionError" /\ features = <<>>
            /\ Accepted =>
                /\ features # <<>>
                /\ Len(args.channels) = 3
                /\ \A s \in 1..3 : Len(args.channels[s]) = n
                /\ npc \in {"constructed", "built", "tested"} =>
                       Cardinality({k \in 1..Len(features) : features[k].block \in Units}) = 3 * n
            /\ (model \in Factories /\ model.classes = 0) => features # <<>>

(* The ShuffleUnit blocks of self.features, by position. *)
ShuffleUnits == {k \in 1..Len(features) : features[k].block = "ShuffleUnit"}

(* The block at position k of self.features is the first unit of a stage:
   the initial block and the units of the stages before precede it. *)
FirstOfStage(k) ==
    \E s \in 1..Len(args.channels) : k = 2 + UnitCount(SubSeq(args.channels, 1, s - 1))

(* C23: in a ShuffleNetV2b of a public factory every ShuffleUnit has an even
   in_channels and passes its assertion, a unit downsamples exactly when it
   is the first of its stage, a unit that does not downsample has
   in_channels = out_channels, and for an input of in_channels channels the
   forward pass of the unit concatenates a first branch and a second branch
   of out_channels minus the width of the first, out_channels in all: the
   first branch has in_channels channels when the unit downsamples and half
   of them otherwise. *)
C23_ShuffleUnitWidths ==
    (model \in shufflenetv2b_factories /\ npc # "call") =>
        /\ ~(npc = "raised" /\ error = "AssertionError")
        /\ \A k \in ShuffleUnits :
            LET b == features[k]
                downsample == b.strides = 2
                unit == ShuffleUnit(b.in_channels, b.out_channels, downsample)
                r == ShuffleUnit_hybrid_forward(unit, b.in_channels)
            IN  /\ b.in_channels % 2 = 0
                /\ ~unit.raised
                /\ downsample <=> FirstOfStage(k)
                /\ ~downsample => b.in_channels = b.out_channels
                /\ ~r.raised
                /\ r.y1 = (IF downsample THEN b.in_channels ELSE b.in_channels \div 2)
                /\ r.y2 = b.out_channels - r.y1
                /\ r.y1 > 0 /\ r.y2 > 0
                /\ r.channels = b.out_channels

(* shufflenetv2b_wd2 is built: the first unit takes 24 channels to 48 and
   downsamples, the second keeps 48 and does not. *)
C23_Witness ==
    /\ model \in shufflenetv2b_factories
    /\ model.width_scale = 12
    /\ npc = "built"
    /\ features[2] = Block("ShuffleUnit", 24, 48, 2, 0)
    /\ features[3] = Block("ShuffleUnit", 48, 48, 1, 0)
    /\ ShuffleUnit_hybrid_forward(ShuffleUnit(24, 48, TRUE), 24).y2 = 24
    /\ ShuffleUnit_hybrid_forward(ShuffleUnit(48, 48, FALSE), 48).y1 = 24
    /\ Cardinality(ShuffleUnits) = 16

(* The DLATree blocks of self.features, by position. *)
Trees == {k \in 1..Len(features) : features[k].block = "DLATree"}

(* C22: in every tree of a DLA, for an input of the in_channels of the
   tree, each root block concatenates x2, x1 and the widths of extra to
   exactly the in_channels its convolution was constructed with, every root
   of the tree is reached by the forward pass, and a block of the tree has a
   root exactly when its levels is 1. *)
C22_RootWidths ==
    (model.family = "dla" /\ npc # "call") =>
        \A k \in Trees :
            LET b == features[k]
                r == DLATree_hybrid_forward(b.tree, <<>>, b.in_channels, <<>>)
            IN  /\ \A t \in b.tree : ("root" \in DOMAIN t) <=> (t.levels = 1)
                /\ \A t \in b.tree : t.levels >= 1
                /\ ~r.raised
                /\ r.x = b.out_channels
                /\ {c.path : c \in r.roots} = {t.path : t \in {n \in b.tree : n.levels = 1}}
                /\ \A c \in r.roots : c.concat = c.in_channels

(* dla169 is built: its first tree has two levels and no downsampled input,
   and the first root of its third tree, of five levels, takes the
   downsampled input of 256 channels with x2 and x1 of 512 each. *)
C22_Witness ==
    /\ model \in dla_factories
    /\ model.levels = <<2, 3, 5, 1>>
    /\ npc = "built"
    /\ \E t \in features[2].tree : t.path = <<>> /\ t.levels = 2 /\ ~t.add_down
    /\ \E t \in features[2].tree : t.path = <<2>> /\ t.root.in_channels = 3 * 128
    /\ \E t \in features[4].tree : t.path = <<>> /\ t.levels = 5 /\ t.add_down
    /\ \E t \in features[4].tree : t.path = <<2, 2, 2, 2>> /\ t.root.in_channels = 6 * 512 + 256
    /\ Cardinality(features[4].tree) = 31

(* The stage (1-based) and the position in it (0-based) of the unit at
   position k of self.features, after the initial block. *)
StageOf(k) ==
    CHOOSE s \in 1..Len(stages) :
        /\ k - 2 >= UnitCount(SubSeq(stages, 1, s - 1))
        /\ k - 2 < UnitCount(SubSeq(stages, 1, s))

PositionOf(k) == k - 2 - UnitCount(SubSeq(stages, 1, StageOf(k) - 1))

(* C24: the constructor of polynet raises no AssertionError, and with
   pretrained=False nothing is raised at all; in self.features the first
   unit of the second and of the third stage is ReductionAUnit and
   ReductionBUnit and every other unit is the PolyAUnit, PolyBUnit or
   PolyCUnit of its stage; a unit of the first stage has poly_scale 0 and no
   poly branch; a normal unit of the other stages has a non-zero poly_scale
   and a poly branch of 3 blocks; and every PolyConv of the pre_block of a
   poly branch has a BatchNorm layer for each index 0, 1, 2 the forward pass
   of the branch uses, so that the pass raises nothing. *)
C24_PolyNetUnits ==
    (model.family = "polynet" /\ npc # "call") =>
        /\ ~(npc = "raised" /\ error = "AssertionError")
        /\ ~pretrained => npc # "raised"
        /\ \A k \in 2..Len(features) :
            LET b == features[k]
                s == StageOf(k)
                j == PositionOf(k)
            IN  b.block # "AvgPool2D" =>
                /\ (j = 0 /\ s # 1) =>
                       b.block = <<"ReductionAUnit", "ReductionBUnit">>[s - 1]
                /\ ~(j = 0 /\ s # 1) =>
                    /\ b.block = <<"PolyAUnit", "PolyBUnit", "PolyCUnit">>[s]
                    /\ b.two_way_scale = args.two_way_scales[s][j + 1]
                    /\ b.poly_scale = args.poly_scales[s][j + 1]
                    /\ s = 1 => b.poly_scale = 0 /\ ~b.unit.has_poly
                    /\ s # 1 =>
                        /\ b.poly_scale # 0
                        /\ b.unit.has_poly
                        /\ b.unit.poly.num_blocks = 3
                        /\ b.unit.poly.scale = b.poly_scale
                        /\ \A index \in 0..(b.unit.poly.num_blocks - 1) :
                               \A branch \in 1..2 :
                                   \A c \in 1..Len(b.unit.poly.pre_block.branches[branch]) :
                                       (index + 1) \in b.unit.poly.pre_block.branches[branch][c].bn
                        /\ ~PolyResidual_hybrid_forward(b.unit.poly, b.in_channels, 0).raised
        /\ npc \in {"constructed", "built", "tested"} =>
               Len(features) = 2 + UnitCount(args.two_way_scales)

(* polynet(pretrained=False) is built and run on one image: 27 units in
   three stages, the twelfth block the first reduction unit, the thirteenth
   a PolyBUnit with a poly branch of scale 0.923077. *)
C24_Witness ==
    /\ model.family = "polynet"
    /\ ~pretrained
    /\ npc = "tested"
    /\ y = <<1, classes_of(model)>>
    /\ Len(features) = 29
    /\ features[2].block = "PolyAUnit" /\ ~features[2].unit.has_poly
    /\ features[12].block = "ReductionAUnit"
    /\ features[13].block = "PolyBUnit" /\ features[13].unit.poly.scale = 923077
    /\ features[23].block = "ReductionBUnit"
    /\ features[28].block = "PolyCUnit" /\ features[28].unit.poly.scale = 707692

(* model_name is None or the empty string. *)
NoModelName == model_name = None \/ model_name = <<"">>

(* A parameter file was loaded. *)
Loaded == \E n \in 1..Len(loaded) : loaded[n].op = "load_parameters"

(* C29, as stated: with pretrained=False nothing is fetched or loaded; with
   pretrained=True and a model_name that is None or empty the call ends
   with ValueError and nothing is fetched or loaded; a parameter file is
   loaded only with pretrained=True and a non-empty model_name. *)
C29_ValueErrorWithoutName ==
    /\ ~pretrained => loaded = <<>>
    /\ (pretrained /\ NoModelName) =>
        /\ loaded = <<>>
        /\ npc \notin {"built", "tested"}
        /\ npc = "raised" => error = "ValueError"
    /\ Loaded => pretrained /\ ~NoModelName

(* C29, amended: with pretrained=False nothing is fetched or loaded; with
   pretrained=True and a model_name that is None or empty nothing is
   fetched or loaded and no network is returned: the call raises ValueError
   once the constructor has completed, and the exception of the factory or
   of the constructor when one of them raises first; a parameter file is
   loaded only with pretrained=True and a non-empty model_name, after
   get_model_file was called with that name. *)
C29_NoLoadWithoutName ==
    /\ ~pretrained => loaded = <<>>
    /\ (pretrained /\ NoModelName) =>
        /\ loaded = <<>>
        /\ npc \notin {"built", "tested"}
        /\ (npc = "raised" /\ output # <<>>) => error = "ValueError"
        /\ (npc = "raised" /\ output = <<>>) =>
               error \in {"AssertionError", "ZeroDivisionError"}
    /\ Loaded =>
        /\ pretrained /\ ~NoModelName
        /\ loaded = <<[op |-> "get_model_file", model_name |-> model_name],
                      [op |-> "load_parameters", model_name |-> model_name]>>
    /\ \A n \in 1..Len(loaded) : loaded[n].model_name = model_name /\ ~NoModelName

(* get_dla was called with pretrained=True and model_name=None: the network
   was constructed, ValueError raised and nothing fetched. *)
C29_Witness ==
    /\ model.family = "dla"
    /\ pretrained
    /\ model_name = None
    /\ npc = "raised"
    /\ error = "ValueError"
    /\ output # <<>>
    /\ loaded = <<>>

(* The calls of one operation, by position. *)
CallsOf(op) == {n \in 1..Len(calls) : calls[n].op = op}

(* The last call of an operation. *)
LastCall(op) == calls[CHOOSE n \in CallsOf(op) : \A m \in CallsOf(op) : m <= n]

(* C30: after any calls of update and update_from_dataset, self.lang equals
   dataset_class_extra_kwargs["lang"], both "en" before the first update and
   the lang of the last update after it; num_classes is None before the
   first update_from_dataset and the length of the vocabulary of the last
   dataset plus 1 after it; and the vocabulary of val_metric_extra_kwargs
   and of test_metric_extra_kwargs are the same, None before the first
   update_from_dataset and the vocabulary of the last dataset after it. *)
C30_MetaInfoConsistent ==
    metainfo.label = "MCV" =>
        /\ metainfo.lang = metainfo.dataset_class_extra_kwargs.lang
        /\ metainfo.lang = (IF CallsOf("update") = {} THEN "en" ELSE LastCall("update").lang)
        /\ metainfo.val_metric_extra_kwargs[1].vocabulary
               = metainfo.test_metric_extra_kwargs[1].vocabulary
        /\ IF CallsOf("update_from_dataset") = {}
           THEN /\ metainfo.num_classes = NoClasses
                /\ metainfo.val_metric_extra_kwargs[1].vocabulary = None
           ELSE /\ metainfo.num_classes = Len(LastCall("update_from_dataset").vocabulary) + 1
                /\ metainfo.val_metric_extra_kwargs[1].vocabulary
                       = LastCall("update_from_dataset").vocabulary

(* update with --lang ru34, then update_from_dataset with a dataset of ru34,
   then update with --lang fr: lang is fr in both places, num_classes is 34
   and both metrics hold the vocabulary of ru34. *)
C30_Witness ==
    /\ Len(calls) = 3
    /\ calls[1].op = "update" /\ calls[1].lang = "ru34"
    /\ calls[2].op = "update_from_dataset" /\ calls[2].lang = "ru34"
    /\ calls[3].op = "update" /\ calls[3].lang = "fr"
    /\ metainfo.lang = "fr"
    /\ metainfo.dataset_class_extra_kwargs.lang = "fr"
    /\ metainfo.num_classes = 34
    /\ metainfo.test_metric_extra_kwargs[1].vocabulary = vocabulary_ru34

(* C25: when the constructor has returned, the wav file of every pair of
   data exists, whatever the sample rate of the mp3 it was made from. *)
C25_WavOfEveryPairExists ==
    pc = "done" => \A i \in 1..Len(data) : data[i][1] \in exists

(* The events a step adds. *)
Added == {n \in 1..Len(events') : n > Len(events)}

(* C26: no step of the constructor removes a file; the mp3 is loaded, and
   a file written, only in the step after the pair of the row was appended
   and only when the wav file of that row did not exist before the step; a
   step writes at most one file, and the only file it can create is the
   wav file named in the pair of the row. *)
C26_ExistingWavKept ==
    [][/\ exists \subseteq exists'
       /\ (\E n \in Added : events'[n].op \in {"load", "resample", "write"}) =>
              /\ pc = "wav"
              /\ data # <<>>
              /\ data[Len(data)][1] = wav_file_path(lang, clip_file_name)
              /\ data[Len(data)][1] \notin exists
       /\ \A n \in Added :
              events'[n].op = "write" =>
                  /\ events'[n].path = data[Len(data)][1]
                  /\ \A m \in Added : events'[m].op = "write" => m = n
       /\ (exists' # exists) =>
              /\ exists' = exists \cup {data[Len(data)][1]}
              /\ \E n \in Added : events'[n] = Event("write", data[Len(data)][1])
      ]_vars

(* The constructor returned after two rows of different clips: the wav file
   of the first existed and nothing was loaded or written for it, the wav
   file of the second was written, once. *)
C26_Witness ==
    /\ pc = "done"
    /\ Len(data) = 2
    /\ data[1][1] # data[2][1]
    /\ \A n \in EventsOf("load") \cup EventsOf("write") :
           events[n].path \notin {data[1][1], mp3_file_path(lang, rows[1].path)}
    /\ Cardinality(EventsOf("write")) = 1
    /\ \E n \in EventsOf("write") : events[n].path = data[2][1]
    /\ \E n \in EventsOf("exists") : events[n].path = data[1][1]

(* The four paths the constructor needs, in the order of lines 54-73. *)
Prerequisites ==
    <<root_dir_path, data_dir_path(lang), metainfo_file_path(lang), clips_dir_path(lang)>>

IsPrerequisiteCheck(e) == e.op = "exists" /\ e.path \in Range(Prerequisites)

(* The checks of the prerequisites among the first n events. *)
PrerequisiteChecks(n) == SelectSeq(SubSeq(events, 1, n), IsPrerequisiteCheck)

(* C27: the constructor looks for the root directory, the language
   directory, the file <subset>.tsv and the clips directory, each once and
   in this order; a check of a path that does not exist is the last thing
   the constructor does and it ends with an AssertionError; and before any
   sentence is normalized or encoded, any row taken, and any audio file
   loaded, resampled or written, all four were checked and exist. *)
C27_PrerequisitesInOrder ==
    LET checks == PrerequisiteChecks(Len(events))
    IN  /\ Len(checks) <= 4
        /\ \A k \in 1..Len(checks) :
            /\ checks[k].path = Prerequisites[k]
            /\ Prerequisites[k] \notin exists =>
                /\ k = Len(checks)
                /\ events[Len(events)] = checks[k]
                /\ pc = "raised"
                /\ failure = "AssertionError"
        /\ \A n \in 1..Len(events) :
               (~IsPrerequisiteCheck(events[n]) /\ events[n].op \notin {"get_vocabulary_for_lang", "read_csv"}) =>
                   /\ Len(PrerequisiteChecks(n - 1)) = 4
                   /\ Range(Prerequisites) \subseteq exists
        /\ \A n \in EventsOf("read_csv") :
               /\ Len(PrerequisiteChecks(n - 1)) = 3
               /\ \A k \in 1..3 : Prerequisites[k] \in exists
        /\ (rows # <<>> \/ data # <<>> \/ pc \in {"for", "text", "encode", "wav", "done"}) =>
               /\ Len(checks) = 4
               /\ Range(Prerequisites) \subseteq exists

(* The root directory, the language directory and the table exist and the
   clips directory does not: the constructor failed on its fourth check,
   after reading the table and before taking a row. *)
C27_Witness ==
    /\ pc = "raised"
    /\ failure = "AssertionError"
    /\ Len(PrerequisiteChecks(Len(events))) = 4
    /\ events[Len(events)] = Event("exists", clips_dir_path(lang))
    /\ clips_dir_path(lang) \notin exists
    /\ metainfo_file_path(lang) \in exists
    /\ EventsOf("read_csv") # {}
    /\ rows = <<>>
    /\ EventsOf("normalize") = {}

(* The names of the language directories the constructor has looked into:
   the second component of every path it checked, read, loaded or wrote. *)
DirectoriesUsed ==
    {events[n].path[2] : n \in {k \in 1..Len(events) :
                                   /\ events[k].op \in {"exists", "read_csv", "load", "write"}
                                   /\ Len(events[k].path) >= 2}}

(* C28: with lang ru34 every path below the root that the constructor
   checks, reads, loads or writes lies in the directory ru, the vocabulary
   is the 33-symbol list of ru34, which is the list of ru without U+0451,
   and a normalized sentence holds no U+0451 (it was merged into U+0435);
   with any other supported language the directory is named by the code. *)
C28_Ru34ReadsRu ==
    lang \in SupportedLangs =>
        /\ DirectoriesUsed \subseteq {IF lang = "ru34" THEN "ru" ELSE lang}
        /\ \A n \in 1..Len(data) : data[n][1][2] = (IF lang = "ru34" THEN "ru" ELSE lang)
        /\ (lang = "ru34" /\ vocabulary # <<>>) =>
               /\ vocabulary = vocabulary_ru34
               /\ Len(vocabulary) = 33
               /\ Range(vocabulary) = Range(vocabulary_ru) \ {"U+0451"}
        /\ (lang = "ru34" /\ pc \in {"encode", "wav"}) =>
               /\ "U+0451" \notin Range(text)
               /\ Count(text, "U+0435") >= Count(lower(sentence), "U+0451")

(* A ru34 run that found its table and its clips in the directory ru and
   normalized a sentence with U+0451 in it. *)
C28_Witness ==
    /\ lang = "ru34" /\ pc = "wav"
    /\ DirectoriesUsed = {"ru"}
    /\ \E n \in EventsOf("read_csv") : events[n].path = <<"root", "ru", "dev.tsv">>
    /\ "U+0451" \in Range(lower(sentence))
    /\ "U+0435" \in Range(text)

====
